---- MODULE Spec2Model ----
(***************************************************************************)
(* Model of the Web3 Telegram business-assistant bot:                      *)
(*   - FAQHandler.findBestMatch and its helpers (src/handlers/faqHandler)  *)
(*   - MessageAnalyzer.analyzeMessage          (src/utils/messageAnalyzer) *)
(*   - the text-message handler of the bot     (src/webhook.js)            *)
(*   - isPriceQuery and extractSymbol         (src/handlers/web3Handler)   *)
(*   - the FAQ store: loadFAQs, addFAQ, saveFAQs and the addfaq command    *)
(*   - searchFAQs and the search command of the FAQ handlers               *)
(*   - normalizeText applied to its own result                             *)
(*   - the price cache of getCryptoPrice over time                         *)
(*   - Web3WebhookServer.handleMessage and the KeyboardManager responses   *)
(*                                                                         *)
(* JavaScript strings are modelled as sequences of one-character strings,  *)
(* so that lower-casing, regular-expression classes, substring search and  *)
(* the string-distance metric are computed character by character.         *)
(* Numeric scores are exact rationals <<numerator, denominator>>.          *)
(***************************************************************************)
EXTENDS Integers, Sequences, FiniteSets, TLC

VARIABLES
    faqs,               \* FAQHandler.faqs: the in-memory list of FAQ entries
    fallbackResponses,  \* FAQHandler.fallbackResponses
    userQuestion,       \* argument of the findBestMatch call
    matchPc,            \* "call" before findBestMatch ran, "done" after
    matchResult,        \* value the findBestMatch promise resolved to
    analyzedText,       \* argument of the analyzeMessage call
    analyzePc,          \* "call" before analyzeMessage ran, "done" after
    analysis,           \* the object analyzeMessage returned
    handlerVariant,     \* "webhook" or "polling": which bot script runs
    faqHandlerKind,     \* "keyword" or "fuzzy": which FAQHandler is loaded
    actionGroupConfigured,  \* config.telegram.actionGroupChatId is set
    priceCache,         \* Web3Handler.priceCache: the keys cached
    userSessions,       \* the chats that have a session
    msgText,            \* msg.text of the message being handled
    routePc,            \* "received" before the handler ran, "done" after
    calls,              \* the calls the handler made for the message
    sent,               \* the messages the handler delivered
    unhandled,          \* the handler ended in an unhandled rejection
    priceText,          \* argument of the isPriceQuery call
    pricePc,            \* "call" before the price check ran, "done" after
    priceIsQuery,       \* what isPriceQuery returned
    priceSymbol,         \* what extractSymbol returned for a price query
    faqFile,            \* data/faq.json: the lists the backing file holds
    loadPc,             \* position of the loadFAQs call the constructor made
    loadData,           \* what loadFAQs read from the file
    dateNow,            \* Date.now()
    addCalls,           \* the addFAQ calls: position, arguments and locals
    lastWrite,           \* the addFAQ call whose writeFile completed last, 0 if none
    queryInput,         \* the malformed text, or no text at all
    queryPc,            \* "call" before the three operations ran, "done" after
    queryOutcome,        \* how findBestMatch, analyzeMessage and isPriceQuery ended
    searchText,         \* the term searched for
    searchPc,           \* "call" before the search ran, "done" after
    searchVia,          \* "searchFAQs" or "command": the operation that searched
    searchFound,        \* the entries the search returned
    searchError,         \* the message of the error the search threw, "" if none
    normText,           \* the text given to normalizeText
    normPc,             \* "idle", "ready", "once" or "twice"
    normalizedOnce,     \* normalizeText(normText)
    normalizedTwice,     \* normalizeText(normalizedOnce)
    cacheClock,         \* Date.now(), in minutes since the start
    cacheStamps,        \* this.priceCache: the timestamp stored under every cache key
    priceCalls,          \* the getCryptoPrice calls that ended, in order
    serverText,         \* msg.text of the message the server received, Undefined if it has none
    serverGroupConfigured,\* config.telegram.actionGroupChatId is set
    serverPc,           \* "idle", "received" or "done"
    serverCalls,        \* the calls handleMessage made for the message
    serverSent          \* the messages delivered for it, in order

matchVars == <<faqs, fallbackResponses, userQuestion, matchPc, matchResult>>
analyzeVars == <<analyzedText, analyzePc, analysis>>

routeVars == <<handlerVariant, faqHandlerKind, actionGroupConfigured, priceCache,
               userSessions, msgText, routePc, calls, sent, unhandled>>

priceVars == <<priceText, pricePc, priceIsQuery, priceSymbol>>

storeVars == <<faqFile, loadPc, loadData, dateNow, addCalls, lastWrite>>

queryVars == <<queryInput, queryPc, queryOutcome>>

searchVars == <<searchText, searchPc, searchVia, searchFound, searchError>>

normVars == <<normText, normPc, normalizedOnce, normalizedTwice>>

cacheVars == <<cacheClock, cacheStamps, priceCalls>>

serverVars == <<serverText, serverGroupConfigured, serverPc, serverCalls, serverSent>>

vars == <<matchVars, analyzeVars, routeVars, priceVars, storeVars, queryVars, searchVars, normVars, cacheVars, serverVars>>

(***************************************************************************)
(* Bounds of the model.                                                    *)
(***************************************************************************)
MaxFaqs == 2        \* longest FAQ list drawn for a findBestMatch call
MaxWords == 2       \* most tokens joined into one user question
MaxPhrases == 3     \* most phrases joined into one text to analyze
MaxRouteWords == 2  \* most tokens joined into the text of one message
MaxPriceWords == 2  \* most tokens joined into one text given to isPriceQuery
MaxAdds == 2        \* most addFAQ calls of one behaviour
MaxClock == 2       \* the instants Date.now() passes through
MaxGarbageWords == 2  \* most garbage tokens joined into one malformed input

(***************************************************************************)
(* Characters and character classes.                                       *)
(***************************************************************************)
LowerLetters ==
    {"a","b","c","d","e","f","g","h","i","j","k","l","m",
     "n","o","p","q","r","s","t","u","v","w","x","y","z"}

UpperLetters ==
    {"A","B","C","D","E","F","G","H","I","J","K","L","M",
     "N","O","P","Q","R","S","T","U","V","W","X","Y","Z"}

Digits == {"0","1","2","3","4","5","6","7","8","9"}

\* String.prototype.toLowerCase on one character
ToLowerChar(c) ==
    CASE c = "A" -> "a" [] c = "B" -> "b" [] c = "C" -> "c" [] c = "D" -> "d"
      [] c = "E" -> "e" [] c = "F" -> "f" [] c = "G" -> "g" [] c = "H" -> "h"
      [] c = "I" -> "i" [] c = "J" -> "j" [] c = "K" -> "k" [] c = "L" -> "l"
      [] c = "M" -> "m" [] c = "N" -> "n" [] c = "O" -> "o" [] c = "P" -> "p"
      [] c = "Q" -> "q" [] c = "R" -> "r" [] c = "S" -> "s" [] c = "T" -> "t"
      [] c = "U" -> "u" [] c = "V" -> "v" [] c = "W" -> "w" [] c = "X" -> "x"
      [] c = "Y" -> "y" [] c = "Z" -> "z" [] OTHER -> c

\* the regular-expression class \w
IsWordChar(c) == c \in LowerLetters \cup UpperLetters \cup Digits \cup {"_"}

\* the regular-expression class \s
IsSpaceChar(c) == c \in {" ", "\t"}

(***************************************************************************)
(* String primitives of JavaScript used by the handlers.                   *)
(***************************************************************************)
toLowerCase(s) == [i \in 1..Len(s) |-> ToLowerChar(s[i])]

\* String.prototype.includes
includes(s, k) ==
    \E i \in 0..(Len(s) - Len(k)) :
        \A j \in 1..Len(k) : s[i + j] = k[j]

RECURSIVE trimStart(_)
trimStart(s) ==
    IF s # <<>> /\ IsSpaceChar(Head(s)) THEN trimStart(Tail(s)) ELSE s

RECURSIVE trimEnd(_)
trimEnd(s) ==
    IF s # <<>> /\ IsSpaceChar(s[Len(s)])
    THEN trimEnd(SubSeq(s, 1, Len(s) - 1))
    ELSE s

\* String.prototype.trim
trim(s) == trimEnd(trimStart(s))

\* String.prototype.split(' '): cut at every single space, keeping empty pieces
RECURSIVE splitAcc(_, _, _)
splitAcc(s, cur, acc) ==
    IF s = <<>> THEN Append(acc, cur)
    ELSE IF Head(s) = " " THEN splitAcc(Tail(s), <<>>, Append(acc, cur))
    ELSE splitAcc(Tail(s), Append(cur, Head(s)), acc)

split(s) == splitAcc(s, <<>>, <<>>)

\* Array.prototype.join(sep)
RECURSIVE join(_, _)
join(parts, sep) ==
    IF parts = <<>> THEN <<>>
    ELSE IF Len(parts) = 1 THEN parts[1]
    ELSE parts[1] \o sep \o join(Tail(parts), sep)

\* replace(/[^\w\s]/g, ' ')
replaceNonWord(s) ==
    [i \in 1..Len(s) |-> IF IsWordChar(s[i]) \/ IsSpaceChar(s[i]) THEN s[i] ELSE " "]

\* replace(/\s+/g, ' ')
RECURSIVE collapseSpaces(_)
collapseSpaces(s) ==
    IF s = <<>> THEN <<>>
    ELSE IF IsSpaceChar(Head(s))
         THEN <<" ">> \o collapseSpaces(trimStart(s))
         ELSE <<Head(s)>> \o collapseSpaces(Tail(s))

(***************************************************************************)
(* Exact rational arithmetic for the scores.                               *)
(***************************************************************************)
Rat(n, d) == <<n, d>>
RZero == Rat(0, 1)
ROne == Rat(1, 1)

RECURSIVE Gcd(_, _)
Gcd(a, b) == IF b = 0 THEN a ELSE Gcd(b, a % b)

RNorm(r) ==
    IF r[1] = 0 THEN RZero
    ELSE LET g == Gcd(r[1], r[2]) IN Rat(r[1] \div g, r[2] \div g)

\* a/b < c/d for a, c >= 0 and b, d > 0, by the Euclidean expansion
RECURSIVE FracLess(_, _, _, _)
FracLess(a, b, c, d) ==
    LET q1 == a \div b
        q2 == c \div d
        r1 == a % b
        r2 == c % d
    IN  IF q1 # q2 THEN q1 < q2
        ELSE IF r2 = 0 THEN FALSE
        ELSE IF r1 = 0 THEN TRUE
        ELSE FracLess(d, r2, b, r1)

RLt(x, y) == FracLess(x[1], x[2], y[1], y[2])
RGt(x, y) == RLt(y, x)
RGe(x, y) == ~RLt(x, y)
REq(x, y) == ~RLt(x, y) /\ ~RLt(y, x)

(***************************************************************************)
(* FAQHandler (src/handlers/faqHandler.js).                                *)
(* An FAQ entry is [id, question, answer, keywords]; a value that may be   *)
(* null is a sequence of length at most one (<<>> is null).                *)
(***************************************************************************)
Null == <<>>
Some(x) == <<x>>
Undefined == <<"undefined">>

\* variant: a threshold of 0.8
confidenceThreshold_loose == Rat(8, 10)
confidenceThreshold == Rat(9, 10)
partialThreshold == Rat(7, 10)
partialFloor == Rat(1, 2)
jaroWeight == Rat(7, 10)
keywordWeight == Rat(3, 10)

\* variant: the trim before the replacements
normalizeText_trimFirst(text) ==
    collapseSpaces(replaceNonWord(trim(toLowerCase(text))))

\* normalizeText(text)
normalizeText(text) == trim(collapseSpaces(replaceNonWord(toLowerCase(text))))

\* calculateKeywordScore(userText, keywords)
calculateKeywordScore(userText, keywords) ==
    IF Len(keywords) = 0 THEN RZero
    ELSE LET normalizedUserText == toLowerCase(userText)
             matchCount == Cardinality({i \in 1..Len(keywords) :
                               includes(normalizedUserText, toLowerCase(keywords[i]))})
         IN  RNorm(Rat(matchCount, Len(keywords)))

(***************************************************************************)
(* natural.JaroWinklerDistance, the metric bound to this.jaroWinkler.      *)
(***************************************************************************)
Max(a, b) == IF a >= b THEN a ELSE b
Min(a, b) == IF a <= b THEN a ELSE b

SetMin(S) == CHOOSE x \in S : \A y \in S : x <= y

\* the characters of s at the positions in S, in increasing position order
RECURSIVE charsAt(_, _, _)
charsAt(s, S, i) ==
    IF i > Len(s) THEN <<>>
    ELSE IF i \in S THEN <<s[i]>> \o charsAt(s, S, i + 1)
    ELSE charsAt(s, S, i + 1)

\* first loop of distance(): greedy matching inside the match window;
\* returns <<matches1, matches2>> as sets of matched positions
RECURSIVE jaroMatches(_, _, _, _, _, _)
jaroMatches(s1, s2, w, i, m1, m2) ==
    IF i > Len(s1) THEN <<m1, m2>>
    ELSE LET cand == {k \in Max(1, i - w)..Min(i + w, Len(s2)) :
                          k \notin m2 /\ s1[i] = s2[k]}
         IN  IF cand = {} THEN jaroMatches(s1, s2, w, i + 1, m1, m2)
             ELSE jaroMatches(s1, s2, w, i + 1, m1 \cup {i}, m2 \cup {SetMin(cand)})

\* distance(s1, s2): the Jaro similarity
jaroDistance(s1, s2) ==
    IF Len(s1) = 0 \/ Len(s2) = 0 THEN RZero
    ELSE LET matchWindow == (Max(Len(s1), Len(s2)) \div 2) - 1
             mm == jaroMatches(s1, s2, matchWindow, 1, {}, {})
             m == Cardinality(mm[1])
             a == charsAt(s1, mm[1], 1)
             b == charsAt(s2, mm[2], 1)
             t2 == Cardinality({j \in 1..m : a[j] # b[j]})   \* twice t
         IN  IF m = 0 THEN RZero
             ELSE RNorm(Rat(2 * m * m * Len(s2) + 2 * m * m * Len(s1)
                              + (2 * m - t2) * Len(s1) * Len(s2),
                            6 * Len(s1) * Len(s2) * m))

\* length of the common prefix, at most 4
RECURSIVE prefixLength(_, _, _)
prefixLength(s1, s2, l) ==
    IF l < 4 /\ l < Len(s1) /\ l < Len(s2) /\ s1[l + 1] = s2[l + 1]
    THEN prefixLength(s1, s2, l + 1)
    ELSE l

\* JaroWinklerDistance(s1, s2)
jaroWinkler(s1, s2) ==
    IF s1 = s2 THEN ROne
    ELSE LET jaro == jaroDistance(s1, s2)
             l == prefixLength(s1, s2, 0)
         IN  RNorm(Rat(10 * jaro[1] + l * (jaro[2] - jaro[1]), 10 * jaro[2]))

\* variant: the two weights exchanged
combinedScore_swapped(jaroScore, keywordScore) ==
    RNorm(Rat(keywordWeight[1] * jaroScore[1] * jaroWeight[2] * keywordScore[2]
                + jaroWeight[1] * keywordScore[1] * keywordWeight[2] * jaroScore[2],
              jaroWeight[2] * jaroScore[2] * keywordWeight[2] * keywordScore[2]))

\* (jaroScore * 0.7) + (keywordScore * 0.3)
combinedScore(jaroScore, keywordScore) ==
    RNorm(Rat(jaroWeight[1] * jaroScore[1] * keywordWeight[2] * keywordScore[2]
                + keywordWeight[1] * keywordScore[1] * jaroWeight[2] * jaroScore[2],
              jaroWeight[2] * jaroScore[2] * keywordWeight[2] * keywordScore[2]))

\* variant: `>=`, which lets a later entry of equal score replace the best
isBetter_orEqual(score, bestScore) == RGe(score, bestScore)

\* the comparison `score > bestScore` that updates the best-score tracker
isBetter(score, bestScore) == RGt(score, bestScore)

\* loop of lines 45-51: best keyword score over the list, first entry wins
RECURSIVE keywordPass(_, _, _, _)
keywordPass(list, normalizedQuestion, i, best) ==
    IF i > Len(list) THEN best
    ELSE LET keywordScore == calculateKeywordScore(normalizedQuestion, list[i].keywords)
         IN  keywordPass(list, normalizedQuestion, i + 1,
                 IF isBetter(keywordScore, best.score)
                 THEN [score |-> keywordScore, match |-> Some(list[i])]
                 ELSE best)

\* loop of lines 63-77: the running best continues from the keyword pass
RECURSIVE fuzzyPass(_, _, _, _)
fuzzyPass(list, normalizedQuestion, i, best) ==
    IF i > Len(list) THEN best
    ELSE LET normalizedFaqQuestion == normalizeText(list[i].question)
             jaroScore == jaroWinkler(normalizedQuestion, normalizedFaqQuestion)
             keywordScore == calculateKeywordScore(normalizedQuestion, list[i].keywords)
             score == combinedScore(jaroScore, keywordScore)
         IN  fuzzyPass(list, normalizedQuestion, i + 1,
                 IF isBetter(score, best.score)
                 THEN [score |-> score, match |-> Some(list[i])]
                 ELSE best)

\* userText.split(' ').filter(word => word.length > 2)
longWords(userText) == SelectSeq(split(userText), LAMBDA w : Len(w) > 2)

\* variant: the words are looked up in the question as stored, not normalized
partialScore_raw(userText, faq) ==
    LET words == longWords(userText)
        matchCount == Cardinality({j \in 1..Len(words) :
                          includes(faq.question, words[j])})
    IN  IF Len(words) = 0 THEN Null
        ELSE Some(RNorm(Rat(matchCount, Len(words))))

\* matchCount / words.length for one entry; Null stands for NaN (0 / 0)
partialScore(userText, faq) ==
    LET normalizedFaqQuestion == normalizeText(faq.question)
        words == longWords(userText)
        matchCount == Cardinality({j \in 1..Len(words) :
                          includes(normalizedFaqQuestion, words[j])})
    IN  IF Len(words) = 0 THEN Null
        ELSE Some(RNorm(Rat(matchCount, Len(words))))

RECURSIVE partialPass(_, _, _, _)
partialPass(list, userText, i, best) ==
    IF i > Len(list) THEN best
    ELSE LET score == partialScore(userText, list[i])
         IN  partialPass(list, userText, i + 1,
                 IF score # Null /\ isBetter(score[1], best.score)
                              /\ RGe(score[1], partialFloor)
                 THEN [score |-> score[1], match |-> Some(list[i])]
                 ELSE best)

\* findPartialMatch(userText): Null or Some([faq, score])
findPartialMatch(list, userText) ==
    LET best == partialPass(list, userText, 1, [score |-> RZero, match |-> Null])
    IN  IF best.match # Null
        THEN Some([faq |-> best.match[1], score |-> best.score])
        ELSE Null

\* values Math.floor(Math.random() * fallbackResponses.length) can take
RandomIndexes(fallbacks) ==
    IF Len(fallbacks) = 0 THEN {0} ELSE 0..(Len(fallbacks) - 1)

\* getRandomFallback(), for the random index drawn
getRandomFallback(fallbacks, randomIndex) ==
    [faq |-> Null, confidence |-> RZero, matchType |-> "fallback",
     response |-> IF randomIndex + 1 \in DOMAIN fallbacks
                  THEN fallbacks[randomIndex + 1] ELSE Undefined]

\* variant: the guard without the trim
isBlankQuestion_noTrim(q) == Len(q) = 0

\* the guard `!userQuestion || userQuestion.trim().length === 0`
isBlankQuestion(q) == Len(q) = 0 \/ Len(trim(q)) = 0

\* variant: a fallback object in place of null
noMatchResult_fallback == Some(getRandomFallback(<<>>, 0))

\* `return null` of line 97
noMatchResult == Null

\* findBestMatch(userQuestion): Null, or Some(result object)
findBestMatch(list, fallbacks, q, randomIndex) ==
    IF isBlankQuestion(q) THEN Some(getRandomFallback(fallbacks, randomIndex))
    ELSE
    LET normalizedQuestion == normalizeText(q)
        kw == keywordPass(list, normalizedQuestion, 1, [score |-> RZero, match |-> Null])
    IN  IF RGe(kw.score, confidenceThreshold)
        THEN Some([faq |-> kw.match, confidence |-> kw.score, matchType |-> "keyword"])
        ELSE
        LET fz == fuzzyPass(list, normalizedQuestion, 1, kw)
        IN  IF RGe(fz.score, confidenceThreshold)
            THEN Some([faq |-> fz.match, confidence |-> fz.score, matchType |-> "fuzzy"])
            ELSE
            LET partialMatch == findPartialMatch(list, normalizedQuestion)
            IN  IF partialMatch # Null /\ RGe(partialMatch[1].score, partialThreshold)
                THEN Some([faq |-> Some(partialMatch[1].faq),
                           confidence |-> partialMatch[1].score,
                           matchType |-> "partial"])
                ELSE noMatchResult

(***************************************************************************)
(* Input domains.                                                          *)
(***************************************************************************)
SP == <<" ">>

\* lists of at most n distinct elements of S
ListsUpTo(S, n) ==
    {l \in UNION {[1..k -> S] : k \in 0..n} :
        \A i, j \in DOMAIN l : i # j => l[i] # l[j]}

\* strings of at most n tokens joined by single spaces
TextsUpTo(T, n) ==
    {join(ws, SP) : ws \in UNION {[1..k -> T] : k \in 0..n}}

(***************************************************************************)
(* MessageAnalyzer (src/utils/messageAnalyzer.js) with the keyword lists   *)
(* of src/config/config.js.                                                *)
(***************************************************************************)
urgentKeywords ==
    <<<<"u","r","g","e","n","t">>,
      <<"e","m","e","r","g","e","n","c","y">>,
      <<"c","r","i","t","i","c","a","l">>,
      <<"a","s","a","p">>,
      <<"i","m","p","o","r","t","a","n","t">>,
      <<"c","r","i","s","i","s">>,
      <<"i","m","m","e","d","i","a","t","e">>>>

mediaKeywords ==
    <<<<"m","e","d","i","a">>,
      <<"i","n","t","e","r","v","i","e","w">>,
      <<"p","r","e","s","s">>,
      <<"j","o","u","r","n","a","l","i","s","t">>,
      <<"r","e","p","o","r","t","e","r">>,
      <<"n","e","w","s">>,
      <<"p","u","b","l","i","c","a","t","i","o","n">>>>

auditKeywords ==
    <<<<"a","u","d","i","t">>,
      <<"i","n","s","p","e","c","t","i","o","n">>,
      <<"r","e","v","i","e","w">>,
      <<"c","o","m","p","l","i","a","n","c","e">>,
      <<"e","x","a","m","i","n","a","t","i","o","n">>,
      <<"a","s","s","e","s","s","m","e","n","t">>>>

urgencyIndicators ==
    <<<<"h","e","l","p">>,
      <<"p","r","o","b","l","e","m">>,
      <<"e","r","r","o","r">>,
      <<"i","s","s","u","e">>,
      <<"t","r","o","u","b","l","e">>,
      <<"b","r","o","k","e","n">>,
      <<"d","o","w","n">>,
      <<"n","o","t"," ","w","o","r","k","i","n","g">>,
      <<"f","a","i","l","e","d">>,
      <<"c","r","a","s","h">>,
      <<"b","u","g">>,
      <<"o","u","t","a","g","e">>>>

urgentWeight == Rat(30, 100)
mediaWeight == Rat(25, 100)
auditWeight == Rat(25, 100)
indicatorWeight == Rat(10, 100)
\* variant: a threshold of 0.3
forwardThreshold_low == Rat(30, 100)
forwardThreshold == Rat(50, 100)

\* keywords.filter(keyword => normalizedText.includes(keyword))
matches(normalizedText, keywords) ==
    SelectSeq(keywords, LAMBDA keyword : includes(normalizedText, keyword))

\* confidence += count * weight, in hundredths
addConfidence(confidence, count, weight) ==
    Rat(confidence[1] + count * weight[1], 100)

\* variant: the confidence test alone
shouldAutoForward_confidenceOnly(confidence, isUrgent) ==
    RGt(confidence, forwardThreshold)

\* analysis.confidence > 0.5 || analysis.isUrgent
shouldAutoForward(confidence, isUrgent) ==
    RGt(confidence, forwardThreshold) \/ isUrgent

\* if (analysis.priority === 'normal') analysis.priority = 'medium'
indicatorPriority(priority) ==
    IF priority = "normal" THEN "medium" ELSE priority

\* analyzeMessage(text)
analyzeMessage(t) ==
    LET normalizedText == toLowerCase(t)
        urgentMatches == matches(normalizedText, urgentKeywords)
        mediaMatches == matches(normalizedText, mediaKeywords)
        auditMatches == matches(normalizedText, auditKeywords)
        urgencyMatches == matches(normalizedText, urgencyIndicators)
        isUrgent == Len(urgentMatches) > 0
        isMedia == Len(mediaMatches) > 0
        isAudit == Len(auditMatches) > 0
        c1 == IF isUrgent THEN addConfidence(RZero, Len(urgentMatches), urgentWeight)
              ELSE RZero
        c2 == IF isMedia THEN addConfidence(c1, Len(mediaMatches), mediaWeight) ELSE c1
        c3 == IF isAudit THEN addConfidence(c2, Len(auditMatches), auditWeight) ELSE c2
        c4 == IF Len(urgencyMatches) > 0
              THEN addConfidence(c3, Len(urgencyMatches), indicatorWeight) ELSE c3
        p1 == IF isUrgent THEN "high" ELSE "normal"
        p2 == IF Len(urgencyMatches) > 0 THEN indicatorPriority(p1) ELSE p1
    IN  [isUrgent |-> isUrgent,
         isMedia |-> isMedia,
         isAudit |-> isAudit,
         priority |-> p2,
         suggestedAction |-> IF isAudit THEN "forward_audit"
                             ELSE IF isMedia THEN "forward_media"
                             ELSE IF isUrgent THEN "forward_urgent"
                             ELSE "null",
         confidence |-> c4,
         shouldAutoForward |-> shouldAutoForward(c4, isUrgent)]

(***************************************************************************)
(* Specification of an analyzeMessage call on texts built from phrases.    *)
(***************************************************************************)
P_urgent == <<"U","r","g","e","n","t","!">>
P_press == <<"p","r","e","s","s">>
P_audit == <<"a","u","d","i","t">>
P_bugs == <<"b","u","g"," ","c","r","a","s","h"," ","o","u","t","a","g","e">>
P_help == <<"h","e","l","p"," ","e","r","r","o","r">>
P_problem == <<"p","r","o","b","l","e","m">>
P_hello == <<"h","e","l","l","o">>

Phrases == {P_urgent, P_press, P_audit, P_bugs, P_help, P_problem, P_hello}

Texts == TextsUpTo(Phrases, MaxPhrases)

NoAnalysis == [isUrgent |-> FALSE, isMedia |-> FALSE, isAudit |-> FALSE,
               priority |-> "none", suggestedAction |-> "null",
               confidence |-> RZero, shouldAutoForward |-> FALSE]

AnalyzeInit ==
    /\ analyzedText \in Texts
    /\ analyzePc = "call"
    /\ analysis = NoAnalysis

\* the analyzer is not called in this specification
AnalyzeIdle ==
    /\ analyzedText = <<>>
    /\ analyzePc = "idle"
    /\ analysis = NoAnalysis

\* messageAnalyzer.analyzeMessage(text)
AnalyzeMessage ==
    /\ analyzePc = "call"
    /\ analysis' = analyzeMessage(analyzedText)
    /\ analyzePc' = "done"
    /\ UNCHANGED analyzedText
    /\ UNCHANGED matchVars
    /\ UNCHANGED routeVars
    /\ UNCHANGED priceVars
    /\ UNCHANGED storeVars
    /\ UNCHANGED queryVars
    /\ UNCHANGED searchVars
    /\ UNCHANGED normVars
    /\ UNCHANGED cacheVars
    /\ UNCHANGED serverVars

(***************************************************************************)
(* Inputs of the findBestMatch specification: FAQ entries as a faq.json    *)
(* may define them, and user questions built from a few tokens.            *)
(***************************************************************************)
T_WhatIs == <<"W","h","a","t"," ","i","s">>
T_DeFiQ == <<"D","e","F","i","?">>
T_safe == <<"s","a","f","e">>
T_punct == <<"?","!">>
T_blank == <<" ">>

Tokens == {T_WhatIs, T_DeFiQ, T_safe, T_punct, T_blank}

\* the question of the test 'should find fuzzy match'
T_tellMeAboutDefi ==
    <<"t","e","l","l"," ","m","e"," ","a","b","o","u","t"," ","d","e","f","i">>

K_defi == <<"d","e","f","i">>
K_decfin == <<"d","e","c","e","n","t","r","a","l","i","z","e","d"," ","f","i","n","a","n","c","e">>
K_safe == <<"s","a","f","e">>
K_fi == <<"f","i">>
K_safedefi == <<"s","a","f","e"," ","d","e","f","i">>

\* the entry of the handler's test data
E_defi ==
    [id |-> "faq_1", question |-> join(<<T_WhatIs, T_DeFiQ>>, SP),
     answer |-> <<"D","e","F","i"," ","i","s"," ","f","i","n","a","n","c","e">>, keywords |-> <<K_defi, K_decfin>>]

\* an entry all of whose keywords occur in the question of E_defi
E_risks ==
    [id |-> "faq_2", question |-> <<"D","e","F","i"," ","r","i","s","k","s">>,
     answer |-> <<"M","i","n","d"," ","t","h","e","m">>, keywords |-> <<K_defi>>]

\* two entries with the same normalized question and the same keywords,
\* three of which occur in their question
E_safe ==
    [id |-> "faq_3", question |-> join(<<T_DeFiQ, T_safe>>, SP),
     answer |-> <<"M","o","s","t","l","y">>, keywords |-> <<K_defi, K_safe, K_fi, K_safedefi>>]

E_safe2 ==
    [id |-> "faq_4", question |-> <<"D","e","f","i"," ","s","a","f","e","!">>,
     answer |-> <<"O","f","t","e","n">>, keywords |-> <<K_defi, K_safe, K_fi, K_safedefi>>]

\* an entry with ten keywords, nine of which occur in "what is defi"
E_letters ==
    [id |-> "faq_5", question |-> <<"L","e","t","t","e","r","s">>,
     answer |-> <<"a","b","c">>,
     keywords |-> <<<<"w">>, <<"h">>, <<"a">>, <<"t">>, <<"i">>,
                    <<"s">>, <<"d">>, <<"e">>, <<"f">>, <<"x">>>>]

EntryPool == {E_defi, E_risks, E_safe, E_safe2, E_letters}

FaqLists == ListsUpTo(EntryPool, MaxFaqs)
Questions == TextsUpTo(Tokens, MaxWords) \cup {T_tellMeAboutDefi}

F_sorry == <<"S","o","r","r","y">>
F_menu == <<"U","s","e"," ","t","h","e"," ","m","e","n","u">>
FallbackLists == {<<>>, <<F_sorry, F_menu>>}

(***************************************************************************)
(* The FAQ store of FAQHandler: the load the constructor starts, addFAQ    *)
(* with saveFAQs, and the addfaq command of handleFAQCommand.  The file    *)
(* data/faq.json is the pair of lists [faqs, fallback_responses].          *)
(***************************************************************************)
stopWords ==
    {<<"t","h","e">>, <<"a">>, <<"a","n">>, <<"a","n","d">>,
     <<"o","r">>, <<"b","u","t">>, <<"i","n">>, <<"o","n">>,
     <<"a","t">>, <<"t","o">>, <<"f","o","r">>, <<"o","f">>,
     <<"w","i","t","h">>, <<"b","y">>, <<"i","s">>, <<"a","r","e">>,
     <<"w","a","s">>, <<"w","e","r","e">>, <<"b","e">>,
     <<"b","e","e","n">>, <<"h","a","v","e">>, <<"h","a","s">>,
     <<"h","a","d">>, <<"d","o">>, <<"d","o","e","s">>, <<"d","i","d">>,
     <<"w","i","l","l">>, <<"w","o","u","l","d">>,
     <<"c","o","u","l","d">>, <<"s","h","o","u","l","d">>,
     <<"m","a","y">>, <<"m","i","g","h","t">>, <<"c","a","n">>,
     <<"w","h","a","t">>, <<"h","o","w">>, <<"w","h","y">>,
     <<"w","h","e","n">>, <<"w","h","e","r","e">>, <<"w","h","o">>,
     <<"w","h","i","c","h">>, <<"t","h","a","t">>, <<"t","h","i","s">>,
     <<"t","h","e","s","e">>, <<"t","h","o","s","e">>}

\* isStopWord(word)
isStopWord(word) == word \in stopWords

\* [...new Set(words)]: the first occurrence of every word
RECURSIVE uniqueWords(_)
uniqueWords(words) ==
    IF words = <<>> THEN <<>>
    ELSE LET front == uniqueWords(SubSeq(words, 1, Len(words) - 1))
             w == words[Len(words)]
         IN  IF \E i \in 1..Len(front) : front[i] = w THEN front
             ELSE Append(front, w)

\* .slice(0, 5)
maxKeywords == 5

keepsWord(word) == Len(word) > 2 /\ ~isStopWord(word)

\* extractKeywords(text)
extractKeywords(text) ==
    LET words == SelectSeq(split(replaceNonWord(toLowerCase(text))), keepsWord)
        distinct == uniqueWords(words)
    IN  SubSeq(distinct, 1, IF Len(distinct) < maxKeywords THEN Len(distinct)
                            ELSE maxKeywords)

\* Date.now() of the first instant of the model
StartTime == 1000

\* `faq_${Date.now()}`
faqId(now) == "faq_" \o ToString(now)

\* the newFAQ object of addFAQ(question, answer, keywords)
newFAQ(question, answer, keywords, now) ==
    [id |-> faqId(now),
     keywords |-> IF Len(keywords) > 0 THEN keywords ELSE extractKeywords(question),
     question |-> trim(question),
     answer |-> trim(answer)]

\* the faqData object saveFAQs serializes
faqDataOf(list, fallbacks) == [faqs |-> list, fallback_responses |-> fallbacks]

failedToAdd == "Failed to add FAQ"
usageError == "Usage: /addfaq <question> | <answer>"
separatorError == "Please separate question and answer with |"
emptyError == "Question and answer cannot be empty"

\* String.prototype.split('|')
RECURSIVE splitBar(_, _, _)
splitBar(s, cur, acc) ==
    IF s = <<>> THEN Append(acc, cur)
    ELSE IF Head(s) = "|" THEN splitBar(Tail(s), <<>>, Append(acc, cur))
    ELSE splitBar(Tail(s), Append(cur, Head(s)), acc)

\* handleFAQCommand('addfaq', args) up to the addFAQ call: the error it
\* throws, or the question and the answer it passes to addFAQ
addfaqCommand(args) ==
    IF Len(args) < 2
    THEN [error |-> usageError, question |-> <<>>, answer |-> <<>>]
    ELSE LET parts == splitBar(join(args, SP), <<>>, <<>>)
         IN  IF Len(parts) < 2
             THEN [error |-> separatorError, question |-> <<>>, answer |-> <<>>]
             ELSE IF trim(parts[1]) = <<>> \/ trim(parts[2]) = <<>>
             THEN [error |-> emptyError, question |-> <<>>, answer |-> <<>>]
             ELSE [error |-> "", question |-> trim(parts[1]), answer |-> trim(parts[2])]


S_gasFees == <<"G","a","s"," ","f","e","e","s">>
S_paid == <<"P","a","i","d"," ","t","o"," ","v","a","l","i","d","a","t","o","r","s">>
S_short == <<"Q","?">>
S_shortAnswer == <<"A",".">>
S_askGas == <<"g","a","s"," ","f","e","e","s">>

\* the arguments of a direct addFAQ(question, answer) call
AddArguments ==
    {<<S_gasFees, S_paid>>, <<S_short, S_shortAnswer>>, <<SP, S_paid>>}

\* the args of a handleFAQCommand('addfaq', args) call; the first is the
\* single element the /addfaq handler passes
CommandArgs ==
    {<<S_gasFees \o <<" ", "|", " ">> \o S_paid>>,
     <<<<"G","a","s">>, <<"f","e","e","s">>, <<"|">>, S_paid>>,
     <<<<"|">>, S_paid>>}

\* the questions asked of the store
StoreQuestions == {S_askGas}

EmptyFile == faqDataOf(<<>>, <<>>)

\* the contents of data/faq.json when the bot starts
StoreFiles == {EmptyFile, faqDataOf(<<E_defi>>, <<F_sorry, F_menu>>)}

\* an addFAQ call that was not made yet; args holds the args of a
\* handleFAQCommand('addfaq', args) call that threw before it reached addFAQ
NoCall ==
    [pc |-> "idle", question |-> <<>>, answer |-> <<>>, newFAQ |-> Null,
     before |-> <<>>, loadEnded |-> FALSE, faqData |-> EmptyFile, error |-> "",
     args |-> <<>>]

\* the constructor: empty lists, loadFAQs() started and not awaited
StoreInit ==
    /\ faqFile \in StoreFiles
    /\ loadPc = "reading"
    /\ loadData = EmptyFile
    /\ dateNow = StartTime
    /\ addCalls = [i \in 1..MaxAdds |-> NoCall]
    /\ lastWrite = 0

\* the store operations are not run in this specification
StoreIdle ==
    /\ faqFile = EmptyFile
    /\ loadPc = "idle"
    /\ loadData = EmptyFile
    /\ dateNow = StartTime
    /\ addCalls = [i \in 1..MaxAdds |-> NoCall]
    /\ lastWrite = 0

otherVars == <<analyzeVars, routeVars, priceVars>>

\* loadFAQs: fs.readFile and JSON.parse succeed
ReadFile ==
    /\ loadPc = "reading"
    /\ loadData' = faqFile
    /\ loadPc' = "read"
    /\ UNCHANGED <<faqFile, dateNow, addCalls, lastWrite>>
    /\ UNCHANGED matchVars
    /\ UNCHANGED otherVars
    /\ UNCHANGED queryVars
    /\ UNCHANGED searchVars
    /\ UNCHANGED normVars
    /\ UNCHANGED cacheVars
    /\ UNCHANGED serverVars

\* loadFAQs: fs.readFile or JSON.parse throws, loadFAQs rejects with
\* 'Failed to load FAQ data' and the lists stay as they are
ReadFails ==
    /\ loadPc = "reading"
    /\ loadPc' = "failed"
    /\ UNCHANGED <<faqFile, loadData, dateNow, addCalls, lastWrite>>
    /\ UNCHANGED matchVars
    /\ UNCHANGED otherVars
    /\ UNCHANGED queryVars
    /\ UNCHANGED searchVars
    /\ UNCHANGED normVars
    /\ UNCHANGED cacheVars
    /\ UNCHANGED serverVars

\* loadFAQs after the await: the lists are replaced by the parsed ones
AssignLoaded ==
    /\ loadPc = "read"
    /\ faqs' = loadData.faqs
    /\ fallbackResponses' = loadData.fallback_responses
    /\ loadPc' = "done"
    /\ UNCHANGED <<userQuestion, matchPc, matchResult>>
    /\ UNCHANGED <<faqFile, loadData, dateNow, addCalls, lastWrite>>
    /\ UNCHANGED otherVars
    /\ UNCHANGED queryVars
    /\ UNCHANGED searchVars
    /\ UNCHANGED normVars
    /\ UNCHANGED cacheVars
    /\ UNCHANGED serverVars

\* the clock advances
Tick ==
    /\ dateNow < StartTime + MaxClock - 1
    /\ dateNow' = dateNow + 1
    /\ UNCHANGED <<faqFile, loadPc, loadData, addCalls, lastWrite>>
    /\ UNCHANGED matchVars
    /\ UNCHANGED otherVars
    /\ UNCHANGED queryVars
    /\ UNCHANGED searchVars
    /\ UNCHANGED normVars
    /\ UNCHANGED cacheVars
    /\ UNCHANGED serverVars

\* the next addFAQ call to be made is call i
IsNextCall(i) ==
    /\ addCalls[i].pc = "idle"
    /\ \A j \in 1..(i - 1) : addCalls[j].pc # "idle"

\* variant: the data is serialized before the new entry is pushed
addFAQStart_saveFirst(i, question, answer) ==
    LET entry == newFAQ(question, answer, <<>>, dateNow)
    IN  /\ faqs' = Append(faqs, entry)
        /\ addCalls' = [addCalls EXCEPT ![i] =
               [pc |-> "writing", question |-> question, answer |-> answer,
                newFAQ |-> Some(entry), before |-> faqs,
                loadEnded |-> (loadPc \in {"done", "failed"}),
                faqData |-> faqDataOf(faqs, fallbackResponses), error |-> "",
                args |-> <<>>]]

\* addFAQ(question, answer) up to the await: newFAQ is built and pushed,
\* saveFAQs serializes the lists and starts fs.writeFile
addFAQStart(i, question, answer) ==
    LET entry == newFAQ(question, answer, <<>>, dateNow)
    IN  /\ faqs' = Append(faqs, entry)
        /\ addCalls' = [addCalls EXCEPT ![i] =
               [pc |-> "writing", question |-> question, answer |-> answer,
                newFAQ |-> Some(entry), before |-> faqs,
                loadEnded |-> (loadPc \in {"done", "failed"}),
                faqData |-> faqDataOf(faqs', fallbackResponses), error |-> "",
                args |-> <<>>]]

\* faqHandler.addFAQ(question, answer)
CallAddFAQ(i) ==
    /\ IsNextCall(i)
    /\ \E arguments \in AddArguments : addFAQStart(i, arguments[1], arguments[2])
    /\ UNCHANGED <<fallbackResponses, userQuestion, matchPc, matchResult>>
    /\ UNCHANGED <<faqFile, loadPc, loadData, dateNow, lastWrite>>
    /\ UNCHANGED otherVars
    /\ UNCHANGED queryVars
    /\ UNCHANGED searchVars
    /\ UNCHANGED normVars
    /\ UNCHANGED cacheVars
    /\ UNCHANGED serverVars

\* faqHandler.handleFAQCommand('addfaq', args)
CallAddfaqCommand(i) ==
    /\ IsNextCall(i)
    /\ \E args \in CommandArgs :
           LET parsed == addfaqCommand(args)
           IN  IF parsed.error # ""
               THEN /\ addCalls' = [addCalls EXCEPT ![i] =
                           [NoCall EXCEPT !.pc = "rejected", !.error = parsed.error,
                                          !.args = args]]
                    /\ UNCHANGED faqs
               ELSE addFAQStart(i, parsed.question, parsed.answer)
    /\ UNCHANGED <<fallbackResponses, userQuestion, matchPc, matchResult>>
    /\ UNCHANGED <<faqFile, loadPc, loadData, dateNow, lastWrite>>
    /\ UNCHANGED otherVars
    /\ UNCHANGED queryVars
    /\ UNCHANGED searchVars
    /\ UNCHANGED normVars
    /\ UNCHANGED cacheVars
    /\ UNCHANGED serverVars

\* variant: the file receives the lists as they are when the write ends
WriteSucceeds_current(i) ==
    /\ addCalls[i].pc = "writing"
    /\ faqFile' = faqDataOf(faqs, fallbackResponses)
    /\ lastWrite' = i
    /\ addCalls' = [addCalls EXCEPT ![i].pc = "done"]
    /\ UNCHANGED <<loadPc, loadData, dateNow>>
    /\ UNCHANGED matchVars
    /\ UNCHANGED otherVars
    /\ UNCHANGED queryVars
    /\ UNCHANGED searchVars
    /\ UNCHANGED normVars
    /\ UNCHANGED cacheVars
    /\ UNCHANGED serverVars

\* fs.writeFile of call i completes: the file holds the data serialized
\* when saveFAQs was called, and addFAQ returns newFAQ
WriteSucceeds(i) ==
    /\ addCalls[i].pc = "writing"
    /\ faqFile' = addCalls[i].faqData
    /\ lastWrite' = i
    /\ addCalls' = [addCalls EXCEPT ![i].pc = "done"]
    /\ UNCHANGED <<loadPc, loadData, dateNow>>
    /\ UNCHANGED matchVars
    /\ UNCHANGED otherVars
    /\ UNCHANGED queryVars
    /\ UNCHANGED searchVars
    /\ UNCHANGED normVars
    /\ UNCHANGED cacheVars
    /\ UNCHANGED serverVars

\* variant: the entry is taken back when the write fails
WriteFails_rollback(i) ==
    /\ addCalls[i].pc = "writing"
    /\ addCalls' = [addCalls EXCEPT ![i].pc = "failed", ![i].error = failedToAdd]
    /\ faqs' = SelectSeq(faqs, LAMBDA e : e # addCalls[i].newFAQ[1])
    /\ UNCHANGED <<fallbackResponses, userQuestion, matchPc, matchResult>>
    /\ UNCHANGED <<faqFile, loadPc, loadData, dateNow, lastWrite>>
    /\ UNCHANGED otherVars
    /\ UNCHANGED queryVars
    /\ UNCHANGED searchVars
    /\ UNCHANGED normVars
    /\ UNCHANGED cacheVars
    /\ UNCHANGED serverVars

\* fs.writeFile of call i fails: saveFAQs throws 'Failed to save FAQ data'
\* and addFAQ throws 'Failed to add FAQ'
WriteFails(i) ==
    /\ addCalls[i].pc = "writing"
    /\ addCalls' = [addCalls EXCEPT ![i].pc = "failed", ![i].error = failedToAdd]
    /\ UNCHANGED matchVars
    /\ UNCHANGED queryVars
    /\ UNCHANGED searchVars
    /\ UNCHANGED normVars
    /\ UNCHANGED cacheVars
    /\ UNCHANGED serverVars
    /\ UNCHANGED <<faqFile, loadPc, loadData, dateNow, lastWrite>>
    /\ UNCHANGED otherVars
    /\ UNCHANGED queryVars
    /\ UNCHANGED searchVars
    /\ UNCHANGED normVars
    /\ UNCHANGED cacheVars
    /\ UNCHANGED serverVars

\* await faqHandler.findBestMatch(userQuestion) on the lists of the store
AskStore ==
    /\ matchPc = "idle"
    /\ \E q \in StoreQuestions :
           /\ userQuestion' = q
           /\ \E randomIndex \in RandomIndexes(fallbackResponses) :
                  matchResult' = findBestMatch(faqs, fallbackResponses, q, randomIndex)
    /\ matchPc' = "done"
    /\ UNCHANGED <<faqs, fallbackResponses>>
    /\ UNCHANGED storeVars
    /\ UNCHANGED otherVars
    /\ UNCHANGED queryVars
    /\ UNCHANGED searchVars
    /\ UNCHANGED normVars
    /\ UNCHANGED cacheVars
    /\ UNCHANGED serverVars

(***************************************************************************)
(* Web3Handler (src/handlers/web3Handler.js): price-query detection,       *)
(* symbol extraction and the cached provider calls.                        *)
(***************************************************************************)
\* String.prototype.startsWith and the $-anchored counterpart
startsWith(s, p) == Len(s) >= Len(p) /\ SubSeq(s, 1, Len(p)) = p
endsWith(s, p) == Len(s) >= Len(p) /\ SubSeq(s, Len(s) - Len(p) + 1, Len(s)) = p

\* (\w+)
IsWord(s) == s # <<>> /\ \A i \in 1..Len(s) : IsWordChar(s[i])

\* \s*
IsSpaces(s) == \A i \in 1..Len(s) : IsSpaceChar(s[i])

W_price == <<"p","r","i","c","e">>

\* the names of the eight ticker patterns
knownTickers ==
    {<<"b","t","c">>,
     <<"b","i","t","c","o","i","n">>,
     <<"e","t","h">>,
     <<"e","t","h","e","r","e","u","m">>,
     <<"a","d","a">>,
     <<"c","a","r","d","a","n","o">>,
     <<"s","o","l">>,
     <<"s","o","l","a","n","a">>,
     <<"d","o","t">>,
     <<"p","o","l","k","a","d","o","t">>,
     <<"m","a","t","i","c">>,
     <<"p","o","l","y","g","o","n">>,
     <<"a","v","a","x">>,
     <<"a","v","a","l","a","n","c","h","e">>,
     <<"l","i","n","k">>,
     <<"c","h","a","i","n","l","i","n","k">>}

\* /^(btc|bitcoin)\s*(price)?$/i and the seven patterns alike
matchesTicker(s) ==
    \E n \in knownTickers :
        /\ startsWith(toLowerCase(s), n)
        /\ LET rest == SubSeq(s, Len(n) + 1, Len(s))
           IN  \E k \in 0..Len(rest) :
                   /\ IsSpaces(SubSeq(rest, 1, k))
                   /\ toLowerCase(SubSeq(rest, k + 1, Len(rest))) \in {<<>>, W_price}

\* /^price\s+(\w+)$/i
matchesPriceWord(s) ==
    /\ startsWith(toLowerCase(s), W_price)
    /\ LET rest == SubSeq(s, Len(W_price) + 1, Len(s))
       IN  \E k \in 1..Len(rest) :
               IsSpaces(SubSeq(rest, 1, k)) /\ IsWord(SubSeq(rest, k + 1, Len(rest)))

\* variant: the word before "price" has to be a known ticker
matchesWordPrice_known(s) ==
    /\ endsWith(toLowerCase(s), W_price)
    /\ LET front == SubSeq(s, 1, Len(s) - Len(W_price))
       IN  \E k \in 1..Len(front) :
               toLowerCase(SubSeq(front, 1, k)) \in knownTickers /\ k < Len(front)
               /\ IsSpaces(SubSeq(front, k + 1, Len(front)))

\* /^(\w+)\s+price$/i
matchesWordPrice(s) ==
    /\ endsWith(toLowerCase(s), W_price)
    /\ LET front == SubSeq(s, 1, Len(s) - Len(W_price))
       IN  \E k \in 1..Len(front) :
               IsWord(SubSeq(front, 1, k)) /\ k < Len(front)
               /\ IsSpaces(SubSeq(front, k + 1, Len(front)))

\* /^\$(\w+)$/i
matchesDollar(s) == s # <<>> /\ Head(s) = "$" /\ IsWord(Tail(s))

\* pricePatterns.some(pattern => pattern.test(message.trim()))
isPriceQuery(message) ==
    LET m == trim(message)
    IN  matchesTicker(m) \/ matchesPriceWord(m) \/ matchesWordPrice(m) \/ matchesDollar(m)

\* the symbol as a nullable value: split(' ')[1] is undefined when the
\* white space after "price" holds no space character
extractSymbol(message) ==
    LET lowered == toLowerCase(trim(message))
        parts == split(lowered)
    IN  IF matchesPriceWord(lowered)
        THEN IF Len(parts) >= 2 THEN Some(parts[2]) ELSE Null
        ELSE IF matchesWordPrice(lowered) THEN Some(parts[1])
        ELSE IF matchesDollar(lowered) THEN Some(Tail(lowered))
        ELSE Some(parts[1])

(***************************************************************************)
(* The price check of a text: isPriceQuery and, as handlePriceQuery does   *)
(* for a price query, extractSymbol.  The texts are tokens joined by one   *)
(* space, two spaces, a tab or nothing.                                    *)
(***************************************************************************)
Q_price == <<"p","r","i","c","e">>
Q_btc == <<"B","T","C">>
Q_sol == <<"$","s","o","l">>
Q_bitcoin == <<"B","i","t","c","o","i","n">>
Q_doge == <<"d","o","g","e">>
Q_what == <<"w","h","a","t">>
Q_is == <<"i","s">>
PriceTokens == {Q_price, Q_btc, Q_sol, Q_bitcoin, Q_doge, Q_what, Q_is}

PriceSeparators == {<<" ">>, <<" ", " ">>, <<"\t">>, <<>>}

\* the texts of exactly n tokens
RECURSIVE PriceJoins(_)
PriceJoins(n) ==
    IF n = 1 THEN PriceTokens
    ELSE {t \o sep \o w : t \in PriceJoins(n - 1), sep \in PriceSeparators,
                          w \in PriceTokens}

Q_whatIsBitcoin == Q_what \o SP \o Q_is \o SP \o toLowerCase(Q_bitcoin)
Q_paddedPrice == SP \o Q_price \o SP \o <<"A","D","A">> \o SP
Q_ethPrice == <<"E","T","H">> \o SP \o <<"P","R","I","C","E">>

PriceTexts ==
    UNION {PriceJoins(n) : n \in 1..MaxPriceWords}
        \cup {<<>>, Q_whatIsBitcoin, Q_paddedPrice, Q_ethPrice}

PriceInit ==
    /\ priceText \in PriceTexts
    /\ pricePc = "call"
    /\ priceIsQuery = FALSE
    /\ priceSymbol = Null

\* the price check is not run in this specification
PriceIdle ==
    /\ priceText = <<>>
    /\ pricePc = "idle"
    /\ priceIsQuery = FALSE
    /\ priceSymbol = Null

\* web3Handler.isPriceQuery(text), web3Handler.extractSymbol(text)
CheckPrice ==
    /\ pricePc = "call"
    /\ priceIsQuery' = isPriceQuery(priceText)
    /\ priceSymbol' = extractSymbol(priceText)
    /\ pricePc' = "done"
    /\ UNCHANGED priceText
    /\ UNCHANGED matchVars
    /\ UNCHANGED analyzeVars
    /\ UNCHANGED routeVars
    /\ UNCHANGED storeVars
    /\ UNCHANGED queryVars
    /\ UNCHANGED searchVars
    /\ UNCHANGED normVars
    /\ UNCHANGED cacheVars
    /\ UNCHANGED serverVars

\* what a call of the price provider can end with
ProviderOutcomes == {"ok", "nodata", "status429", "status404", "timeout", "failure"}

\* `price_${normalizedSymbol}`
priceKey(symbol) == <<"p","r","i","c","e","_">> \o toLowerCase(symbol)
trendingKey == <<"t","r","e","n","d","i","n","g">>
marketKey == <<"m","a","r","k","e","t","_","d","a","t","a">>

\* the message of the Error thrown by the catch block of getCryptoPrice
priceError(outcome) ==
    CASE outcome = "status429" -> "rateLimited"
      [] outcome = "status404" -> "notFound"
      [] outcome = "timeout" -> "timeout"
      [] OTHER -> "unavailable"

\* getCryptoPrice: a cached entry younger than cacheTimeout is returned
\* without a provider call; a provider result is cached; every failure,
\* the TypeError of an undefined symbol included, is rethrown as an Error
getCryptoPrice(symbol, cache, expired, outcome) ==
    IF symbol = Null
    THEN [ok |-> FALSE, error |-> "unavailable", cache |-> cache, called |-> FALSE]
    ELSE LET key == priceKey(symbol[1])
         IN  IF key \in cache /\ ~expired
             THEN [ok |-> TRUE, error |-> "none", cache |-> cache, called |-> FALSE]
             ELSE IF outcome = "ok"
             THEN [ok |-> TRUE, error |-> "none",
                   cache |-> cache \cup {key}, called |-> TRUE]
             ELSE [ok |-> FALSE, error |-> priceError(outcome),
                   cache |-> cache, called |-> TRUE]

\* getTrendingCryptos and getMarketData: the same cache under a fixed key,
\* one error message for every failure
getCached(key, cache, expired, outcome) ==
    IF key \in cache /\ ~expired
    THEN [ok |-> TRUE, cache |-> cache, called |-> FALSE]
    ELSE IF outcome = "ok"
    THEN [ok |-> TRUE, cache |-> cache \cup {key}, called |-> TRUE]
    ELSE [ok |-> FALSE, cache |-> cache, called |-> TRUE]

(***************************************************************************)
(* The keyword FAQHandler (findFAQResponse, getFallbackResponse).          *)
(***************************************************************************)
\* the score of one entry: 10 per keyword equal to the input, 5 per keyword
\* contained in it, 2 per question word longer than 3 contained in it
faqScore(faq, normalizedInput) ==
    LET kws == faq.keywords
        words == split(toLowerCase(faq.question))
        exact == {i \in 1..Len(kws) : normalizedInput = toLowerCase(kws[i])}
        inside == {i \in 1..Len(kws) :
                      includes(normalizedInput, toLowerCase(kws[i]))}
        common == {i \in 1..Len(words) :
                      Len(words[i]) > 3 /\ includes(normalizedInput, words[i])}
    IN  10 * Cardinality(exact) + 5 * Cardinality(inside \ exact)
          + 2 * Cardinality(common)

\* findFAQResponse: the entry whose question equals the input, else the
\* first entry of the highest score if that score is at least 5, else null
findFAQResponse(list, userInput) ==
    IF userInput = <<>> THEN Null
    ELSE LET normalizedInput == trim(toLowerCase(userInput))
             direct == {i \in 1..Len(list) :
                           toLowerCase(list[i].question) = normalizedInput}
             scored == {i \in 1..Len(list) : faqScore(list[i], normalizedInput) > 0}
         IN  IF direct # {}
             THEN Some([faq |-> list[SetMin(direct)], matchType |-> "direct"])
             ELSE IF scored = {} THEN Null
             ELSE LET top == SetMin({i \in scored : \A j \in scored :
                                 faqScore(list[j], normalizedInput)
                                     <= faqScore(list[i], normalizedInput)})
                  IN  IF faqScore(list[top], normalizedInput) >= 5
                      THEN Some([faq |-> list[top], matchType |-> "keyword"])
                      ELSE Null

hardcodedFallback ==
    <<"I","'","m"," ","s","o","r","r","y",","," ","I"," ","c","o","u","l",
      "d","n","'","t"," ","u","n","d","e","r","s","t","a","n","d"," ","y",
      "o","u","r"," ","q","u","e","s","t","i","o","n","."," ","P","l","e",
      "a","s","e"," ","t","r","y"," ","s","e","l","e","c","t","i","n","g",
      " ","a","n"," ","o","p","t","i","o","n"," ","f","r","o","m"," ","t",
      "h","e"," ","m","e","n","u",".">>

\* formatFAQResponse without metadata: the question in bold, then the answer
formatFAQResponse(faq) ==
    <<"(question)", " ", "*", "*">> \o faq.question \o <<"*", "*", "\n", "\n">>
        \o faq.answer

\* getFallbackResponse
getFallbackResponse(fallbacks, randomIndex) ==
    IF Len(fallbacks) = 0 THEN hardcodedFallback ELSE fallbacks[randomIndex + 1]

(***************************************************************************)
(* The message handler of the bot script (src/webhook.js, lines 1003 to    *)
(* 1327) and the polling script that checks the keyboard labels first.     *)
(* Analytics logging is left out.  A reply to the user is taken to be      *)
(* delivered; a send to the action group can fail.                         *)
(***************************************************************************)
L_urgent == <<"(siren)"," ","U","r","g","e","n","t">>
L_web3 == <<"(globe)"," ","W","e","b","3">>
L_livePrices == <<"(chart)"," ","L","i","v","e"," ","P","r","i","c","e","s">>
L_trending == <<"(fire)"," ","T","r","e","n","d","i","n","g">>
L_marketData == <<"(earth)"," ","M","a","r","k","e","t"," ","D","a","t","a">>
L_mainMenu == <<"(house)"," ","M","a","i","n"," ","M","e","n","u">>
L_backToMain == <<"(back)"," ","B","a","c","k"," ","t","o"," ","M","a","i","n">>

\* the labels of the switch of handleKeyboardAction
keyboardLabels ==
    {L_urgent, L_web3, L_livePrices, L_trending, L_marketData, L_mainMenu, L_backToMain}

\* a message sent by bot.sendMessage
Msg(to, kind, body) == [to |-> to, kind |-> kind, body |-> body]

\* what a step of the handler did: the calls made, the messages delivered,
\* the price cache it leaves and whether it threw
Out(steps, msgs, cache, thrown) ==
    [steps |-> steps, msgs |-> msgs, cache |-> cache, thrown |-> thrown]

\* the age of the cache entry and the end of the provider call
ProviderRuns == [expired : BOOLEAN, provider : ProviderOutcomes]

\* the end of a send to the action group
GroupSends == {"ok", "failed"}

\* The handlers below yield the set of the outcomes that the provider, the
\* clock, the action-group send and Math.random allow.

\* the step that records how the provider request of getCryptoPrice ended
providerEnd(outcome) == "provider " \o outcome

\* variant: the catch block sends nothing
handlePriceQuery_silent(t, cache) ==
    LET symbol == extractSymbol(t)
    IN  {LET p == getCryptoPrice(symbol, cache, x.expired, x.provider)
         IN  Out(<<"handlePriceQuery", "extractSymbol", "getCryptoPrice">>
                     \o (IF p.called THEN <<"provider", providerEnd(x.provider)>>
                         ELSE <<>>),
                 IF p.ok THEN <<Msg("user", "price", symbol[1])>> ELSE <<>>,
                 p.cache, FALSE) : x \in ProviderRuns}

\* handlePriceQuery: the formatted price, or the message of the error that
\* getCryptoPrice threw
handlePriceQuery(t, cache) ==
    LET symbol == extractSymbol(t)
    IN  {LET p == getCryptoPrice(symbol, cache, x.expired, x.provider)
         IN  Out(<<"handlePriceQuery", "extractSymbol", "getCryptoPrice">>
                     \o (IF p.called THEN <<"provider", providerEnd(x.provider)>>
                         ELSE <<>>),
                 <<IF p.ok THEN Msg("user", "price", symbol[1])
                           ELSE Msg("user", p.error, <<>>)>>,
                 p.cache, FALSE) : x \in ProviderRuns}

handleTrendingCryptos(cache) ==
    {LET p == getCached(trendingKey, cache, x.expired, x.provider)
     IN  Out(<<"handleTrendingCryptos">> \o (IF p.called THEN <<"provider">> ELSE <<>>),
             <<Msg("user", IF p.ok THEN "trending" ELSE "trendingUnavailable", <<>>)>>,
             p.cache, FALSE) : x \in ProviderRuns}

handleMarketData(cache) ==
    {LET p == getCached(marketKey, cache, x.expired, x.provider)
     IN  Out(<<"handleMarketData">> \o (IF p.called THEN <<"provider">> ELSE <<>>),
             <<Msg("user", IF p.ok THEN "market" ELSE "marketUnavailable", <<>>)>>,
             p.cache, FALSE) : x \in ProviderRuns}

\* the urgent menu, and a notice to the action group when one is configured
handleUrgentRequest(c, cache) ==
    {Out(<<"handleUrgentRequest">>,
         <<Msg("user", "urgentMenu", <<>>)>>
             \o (IF c.actionGroup /\ g = "ok"
                 THEN <<Msg("group", "urgentInitiated", <<>>)>> ELSE <<>>),
         cache, FALSE) : g \in GroupSends}

\* handleKeyboardAction: the outcomes for a label; <<>> for any other text
handleKeyboardAction(c, t, cache) ==
    CASE t = L_urgent -> Some(handleUrgentRequest(c, cache))
      [] t = L_web3 ->
            Some({Out(<<"handleWeb3Menu">>, <<Msg("user", "web3Menu", <<>>)>>, cache, FALSE)})
      [] t = L_livePrices ->
            Some({Out(<<"handleLivePrices">>, <<Msg("user", "livePrices", <<>>)>>, cache, FALSE)})
      [] t = L_trending -> Some(handleTrendingCryptos(cache))
      [] t = L_marketData -> Some(handleMarketData(cache))
      [] t \in {L_mainMenu, L_backToMain} ->
            Some({Out(<<"handleMainMenu">>, <<Msg("user", "mainMenu", <<>>)>>, cache, FALSE)})
      [] OTHER -> Null

\* handleWeb3Keywords: the outcomes, <<>> when no keyword is in the text
handleWeb3Keywords(t, cache) ==
    LET lowerText == toLowerCase(t)
    IN  IF includes(lowerText, <<"t","r","e","n","d","i","n","g">>) \/ includes(lowerText, <<"h","o","t"," ","c","r","y","p","t","o">>)
        THEN Some(handleTrendingCryptos(cache))
        ELSE IF /\ includes(lowerText, <<"m","a","r","k","e","t">>)
                /\ includes(lowerText, <<"d","a","t","a">>) \/ includes(lowerText, <<"c","a","p">>)
        THEN Some(handleMarketData(cache))
        ELSE Null

\* forwardToActionGroup: nothing without a configured group; otherwise the
\* text is analyzed again and sent, and a failed send is only logged
forwardToActionGroup(c, cache) ==
    IF ~c.actionGroup
    THEN {Out(<<"forwardToActionGroup">>, <<>>, cache, FALSE)}
    ELSE {Out(<<"forwardToActionGroup", "analyzeMessage", "sendToGroup">>,
              IF g = "ok" THEN <<Msg("group", "forward", <<>>)>> ELSE <<>>,
              cache, FALSE) : g \in GroupSends}

\* the acknowledgement that handleGeneralMessage sends after forwarding
acknowledgement(a) ==
    IF a.isUrgent THEN "ackUrgent"
    ELSE IF a.isMedia THEN "ackMedia"
    ELSE IF a.isAudit THEN "ackAudit"
    ELSE "ackForwarded"

handleGeneralMessage(c, a, cache) ==
    IF a.shouldAutoForward \/ a.isUrgent
    THEN {Out(<<"handleGeneralMessage">> \o f.steps,
              f.msgs \o <<Msg("user", acknowledgement(a), <<>>)>>, cache, FALSE) :
          f \in forwardToActionGroup(c, cache)}
    ELSE {Out(<<"handleGeneralMessage", "getFallbackResponse">>,
              <<Msg("user", "fallback", getFallbackResponse(c.fallbacks, r))>>,
              cache, FALSE) : r \in RandomIndexes(c.fallbacks)}

\* outcomes preceded by the calls that led to them
After(steps, outs) ==
    {Out(steps \o o.steps, o.msgs, o.cache, o.thrown) : o \in outs}

\* the FAQ lookup and what follows it; the fuzzy FAQHandler has no
\* findFAQResponse method, so that the call throws a TypeError
handleFAQOrGeneral(c, t, a, cache) ==
    IF c.faqHandler = "fuzzy"
    THEN {Out(<<"findFAQResponse">>, <<>>, cache, TRUE)}
    ELSE LET faqMatch == findFAQResponse(c.faqs, t)
         IN  IF faqMatch # Null
             THEN {Out(<<"findFAQResponse", "formatFAQResponse">>,
                       <<Msg("user", "faq", formatFAQResponse(faqMatch[1].faq))>>, cache, FALSE)}
             ELSE After(<<"findFAQResponse">>, handleGeneralMessage(c, a, cache))

\* handleWeb3Keywords, then the FAQ lookup
handleRest(c, t, a, cache) ==
    LET w == handleWeb3Keywords(t, cache)
    IN  IF w # Null
        THEN After(<<"handleWeb3Keywords">>, w[1])
        ELSE After(<<"handleWeb3Keywords">>, handleFAQOrGeneral(c, t, a, cache))

\* variant: no price check
handleMessage_noPriceCheck(c, t, a, cache) ==
    LET k == handleKeyboardAction(c, t, cache)
    IN  IF k # Null
        THEN After(<<"handleKeyboardAction">>, k[1])
        ELSE After(<<"handleKeyboardAction">>, handleRest(c, t, a, cache))

\* handleMessage: the webhook script checks isPriceQuery before the keyboard
\* labels, the polling script after them
handleMessage(c, t, a, cache) ==
    LET k == handleKeyboardAction(c, t, cache)
    IN  IF c.variant = "webhook"
        THEN IF isPriceQuery(t)
             THEN After(<<"isPriceQuery">>, handlePriceQuery(t, cache))
             ELSE IF k # Null
             THEN After(<<"isPriceQuery", "handleKeyboardAction">>, k[1])
             ELSE After(<<"isPriceQuery", "handleKeyboardAction">>,
                        handleRest(c, t, a, cache))
        ELSE IF k # Null
             THEN After(<<"handleKeyboardAction">>, k[1])
             ELSE IF isPriceQuery(t)
             THEN After(<<"handleKeyboardAction", "isPriceQuery">>,
                        handlePriceQuery(t, cache))
             ELSE After(<<"handleKeyboardAction", "isPriceQuery">>,
                        handleRest(c, t, a, cache))

\* the catch block of the webhook script answers with an apology; the
\* polling script has none and the rejection stays unhandled
caught(c, outs) ==
    {IF o.thrown /\ c.variant = "webhook"
     THEN Out(o.steps, Append(o.msgs, Msg("user", "processingError", <<>>)),
              o.cache, FALSE)
     ELSE o : o \in outs}

\* bot.on('message'): commands are skipped; the text is analyzed before it
\* is routed; a message without text makes analyzeMessage throw
onMessage(c, t, cache) ==
    IF t # Undefined /\ startsWith(t, <<"/">>)
    THEN {Out(<<>>, <<>>, cache, FALSE)}
    ELSE IF t = Undefined
    THEN caught(c, {Out(<<"analyzeMessage">>, <<>>, cache, TRUE)})
    ELSE IF t = <<>>
    THEN {Out(<<"analyzeMessage">>, <<>>, cache, FALSE)}
    ELSE caught(c, After(<<"analyzeMessage">>,
                         handleMessage(c, t, analyzeMessage(t), cache)))

(***************************************************************************)
(* findBestMatch, analyzeMessage and isPriceQuery called with malformed    *)
(* query input: the empty string, garbage text, or no text at all          *)
(* (msg.text of a message without text is undefined).                      *)
(***************************************************************************)
typeError == "TypeError"

\* how `await findBestMatch(q)` ends: the guard `!userQuestion` answers a
\* missing question with the fallback object
findBestMatchEnd(list, fallbacks, q, randomIndex) ==
    LET found == IF q = Undefined THEN Some(getRandomFallback(fallbacks, randomIndex))
                 ELSE findBestMatch(list, fallbacks, q, randomIndex)
    IN  IF found = Null THEN "null" ELSE found[1].matchType

\* how analyzeMessage(t) ends: text.toLowerCase() throws on undefined
analyzeMessageEnd(t) ==
    IF t = Undefined THEN typeError
    ELSE IF analyzeMessage(t).shouldAutoForward THEN "forward" ELSE "no forward"

\* how isPriceQuery(t) ends: message.trim() throws on undefined
isPriceQueryEnd(t) ==
    IF t = Undefined THEN typeError
    ELSE IF isPriceQuery(t) THEN "price query" ELSE "no price query"

G_marks == <<"?","!">>
G_signs == <<"@","#","%">>
G_letters == <<"z","z","x","q">>
G_dollar == <<"$">>
G_stars == <<"*","*","*">>
G_digits == <<"0","0","4","2">>
G_bar == <<"|">>
GarbageTokens == {G_marks, G_signs, G_letters, G_dollar, G_stars, G_digits, G_bar}

\* the malformed inputs: garbage, the empty string, white space, no text
QueryInputs ==
    TextsUpTo(GarbageTokens, MaxGarbageWords) \cup {SP \o SP, <<"\t">>, Undefined}

NoOutcome == [match |-> "", analysis |-> "", price |-> ""]

QueryInit ==
    /\ queryInput \in QueryInputs
    /\ queryPc = "call"
    /\ queryOutcome = NoOutcome

\* the three operations are not called in this specification
QueryIdle ==
    /\ queryInput = <<>>
    /\ queryPc = "idle"
    /\ queryOutcome = NoOutcome

\* the lists the FAQHandler holds when it is asked
QueryStore ==
    /\ faqs \in {<<>>, <<E_defi>>}
    /\ fallbackResponses \in FallbackLists
    /\ userQuestion = <<>>
    /\ matchPc = "idle"
    /\ matchResult = Null

\* faqHandler.findBestMatch(q), messageAnalyzer.analyzeMessage(q),
\* web3Handler.isPriceQuery(q)
CallWithQuery ==
    /\ queryPc = "call"
    /\ \E randomIndex \in RandomIndexes(fallbackResponses) :
           queryOutcome' =
               [match |-> findBestMatchEnd(faqs, fallbackResponses, queryInput, randomIndex),
                analysis |-> analyzeMessageEnd(queryInput),
                price |-> isPriceQueryEnd(queryInput)]
    /\ queryPc' = "done"
    /\ UNCHANGED queryInput
    /\ UNCHANGED matchVars
    /\ UNCHANGED analyzeVars
    /\ UNCHANGED routeVars
    /\ UNCHANGED priceVars
    /\ UNCHANGED storeVars
    /\ UNCHANGED searchVars
    /\ UNCHANGED normVars
    /\ UNCHANGED cacheVars
    /\ UNCHANGED serverVars

(***************************************************************************)
(* Searching the FAQ list: searchFAQs of the handler with findFAQResponse  *)
(* and the 'search' case of handleFAQCommand of the FAQHandler, which the  *)
(* /searchfaq command calls.                                               *)
(***************************************************************************)
\* faq.keywords.some(keyword => keyword.toLowerCase().includes(term))
someKeywordIncludes(keywords, term) ==
    \E k \in 1..Len(keywords) : includes(toLowerCase(keywords[k]), term)

\* the filter of searchFAQs
searchFilter(faq, term) ==
    \/ includes(toLowerCase(faq.question), term)
    \/ includes(toLowerCase(faq.answer), term)
    \/ someKeywordIncludes(faq.keywords, term)

\* searchFAQs(searchTerm)
searchFAQs(list, term) ==
    IF term = <<>> THEN <<>>
    ELSE SelectSeq(list, LAMBDA faq : searchFilter(faq, toLowerCase(term)))

noSearchTerm == "Please provide a search term"

\* handleFAQCommand('search', args): the entry of the message it returns,
\* none when nothing was found, or the error it throws
searchCommand(list, fallbacks, args, randomIndex) ==
    IF args = <<>> \/ args[1] = <<>>
    THEN [found |-> <<>>, error |-> noSearchTerm]
    ELSE LET match == findBestMatch(list, fallbacks, join(args, SP), randomIndex)
         IN  IF match # Null /\ match[1].faq # Null
             THEN [found |-> <<match[1].faq[1]>>, error |-> ""]
             ELSE [found |-> <<>>, error |-> ""]

H_defi == <<"D","e","F","i">>
H_fi == <<"f","i">>
H_risks == <<"R","I","S","K","S">>
H_finance == <<"f","i","n","a","n","c","e">>
H_mind == <<"m","i","n","d">>
H_none == <<"n","o","n","e","x","i","s","t","e","n","t","t","e","r","m">>
H_safe == <<"s","a","f","e">>

\* the terms searched for
SearchTerms == {H_defi, H_fi, H_risks, H_finance, H_mind, H_none, H_safe, <<>>}

SearchInit ==
    /\ searchText \in SearchTerms
    /\ searchPc = "call"
    /\ searchVia = ""
    /\ searchFound = <<>>
    /\ searchError = ""

\* no search is run in this specification
SearchIdle ==
    /\ searchText = <<>>
    /\ searchPc = "idle"
    /\ searchVia = ""
    /\ searchFound = <<>>
    /\ searchError = ""

\* the lists the handler holds when it is searched
SearchStore ==
    /\ faqs \in FaqLists
    /\ fallbackResponses \in FallbackLists
    /\ userQuestion = <<>>
    /\ matchPc = "idle"
    /\ matchResult = Null

\* faqHandler.searchFAQs(searchTerm)
SearchFAQs ==
    /\ searchPc = "call"
    /\ searchVia' = "searchFAQs"
    /\ searchFound' = searchFAQs(faqs, searchText)
    /\ searchError' = ""
    /\ searchPc' = "done"
    /\ UNCHANGED searchText
    /\ UNCHANGED matchVars
    /\ UNCHANGED analyzeVars
    /\ UNCHANGED routeVars
    /\ UNCHANGED priceVars
    /\ UNCHANGED storeVars
    /\ UNCHANGED queryVars
    /\ UNCHANGED normVars
    /\ UNCHANGED cacheVars
    /\ UNCHANGED serverVars

\* faqHandler.handleFAQCommand('search', [searchTerm])
SearchCommand ==
    /\ searchPc = "call"
    /\ searchVia' = "command"
    /\ \E randomIndex \in RandomIndexes(fallbackResponses) :
           LET r == searchCommand(faqs, fallbackResponses, <<searchText>>, randomIndex)
           IN  searchFound' = r.found /\ searchError' = r.error
    /\ searchPc' = "done"
    /\ UNCHANGED searchText
    /\ UNCHANGED matchVars
    /\ UNCHANGED analyzeVars
    /\ UNCHANGED routeVars
    /\ UNCHANGED priceVars
    /\ UNCHANGED storeVars
    /\ UNCHANGED queryVars
    /\ UNCHANGED normVars
    /\ UNCHANGED cacheVars
    /\ UNCHANGED serverVars

(***************************************************************************)
(* Web3WebhookServer.handleMessage: the message handler of the class-based *)
(* server, with the KeyboardManager responses and forwardMessage.          *)
(***************************************************************************)
B_urgentRequest == <<"U","r","g","e","n","t"," ","R","e","q","u","e","s","t">>
B_mediaInquiry == <<"M","e","d","i","a"," ","I","n","q","u","i","r","y">>
B_auditRequest == <<"A","u","d","i","t"," ","R","e","q","u","e","s","t">>
B_web3Faqs == <<"W","e","b","3"," ","F","A","Q","s">>
B_cryptoData == <<"C","r","y","p","t","o"," ","D","a","t","a">>
B_contactSupport == <<"C","o","n","t","a","c","t"," ","S","u","p","p","o","r","t">>
B_livePrices == <<"L","i","v","e"," ","P","r","i","c","e","s">>
B_trendingTokens == <<"T","r","e","n","d","i","n","g"," ","T","o","k","e","n","s">>
B_marketOverview == <<"M","a","r","k","e","t"," ","O","v","e","r","v","i","e","w">>
B_walletQuery == <<"W","a","l","l","e","t"," ","Q","u","e","r","y">>
B_backToMain == <<"B","a","c","k"," ","t","o"," ","M","a","i","n">>
B_hello == <<"h","e","l","l","o">>
\* the rows of this.mainKeyboard
mainButtons ==
    {B_urgentRequest, B_mediaInquiry, B_auditRequest, B_web3Faqs, B_cryptoData,
     B_contactSupport}

\* the rows of this.web3Keyboard
web3Buttons ==
    {B_livePrices, B_trendingTokens, B_marketOverview, B_walletQuery, B_backToMain}

\* the responses object of getKeyboardResponseMessage, by the first words
\* of every response
keyboardResponses ==
    [button \in mainButtons |->
        CASE button = B_urgentRequest -> "Your urgent request has been noted"
          [] button = B_mediaInquiry -> "Media inquiry received"
          [] button = B_auditRequest -> "Audit request forwarded to Pashov Audit Group"
          [] button = B_web3Faqs -> "Explore Web3 FAQs"
          [] button = B_cryptoData -> "Access real-time crypto data"
          [] OTHER -> "For professional support"]

optionSelected == "Option selected. How can I assist you further?"

\* getKeyboardResponseMessage(button): responses[button] || the default
getKeyboardResponseMessage(button) ==
    IF button \in DOMAIN keyboardResponses THEN keyboardResponses[button]
    ELSE optionSelected

\* the responses object of getWeb3SubmenuResponse
web3Responses ==
    [button \in web3Buttons |->
        CASE button = B_livePrices -> "Get live cryptocurrency prices"
          [] button = B_trendingTokens -> "Fetch trending tokens"
          [] button = B_marketOverview -> "Market overview available via"
          [] button = B_walletQuery -> "Query wallet information"
          [] OTHER -> "Returned to main menu"]

web3OptionSelected == "Web3 data option selected. How can I help?"

\* getWeb3SubmenuResponse(button): responses[button] || the default
getWeb3SubmenuResponse(button) ==
    IF button \in DOMAIN web3Responses THEN web3Responses[button]
    ELSE web3OptionSelected

\* what a call did: the calls it made and the messages it delivered
Did(steps, msgs) == [steps |-> steps, msgs |-> msgs]

\* String.prototype.replace(' ', '_'): the first space only
RECURSIVE replaceFirstSpace(_)
replaceFirstSpace(s) ==
    IF s = <<>> THEN <<>>
    ELSE IF Head(s) = " " THEN <<"_">> \o Tail(s)
    ELSE <<Head(s)>> \o replaceFirstSpace(Tail(s))

\* forwardMessage(msg, reason): nothing without a configured action group;
\* otherwise the forward is sent, and a failed send is only logged
forwardMessage(configured, reason) ==
    IF ~configured THEN {Did(<<"forwardMessage">>, <<>>)}
    ELSE {Did(<<"forwardMessage", "sendToGroup">>,
              IF g = "ok" THEN <<Msg("group", "forward", reason)>> ELSE <<>>) :
          g \in GroupSends}

\* the buttons after which handleKeyboardButton forwards the message
forwardedButtons == {B_urgentRequest, B_mediaInquiry, B_auditRequest}

\* handleKeyboardButton(msg, buttonText, response)
handleKeyboardButton(configured, buttonText, response) ==
    LET forwards ==
            IF buttonText \in forwardedButtons
            THEN forwardMessage(configured, replaceFirstSpace(toLowerCase(buttonText)))
            ELSE {Did(<<>>, <<>>)}
    IN  {Did(<<"handleKeyboardButton">> \o f.steps,
             f.msgs \o <<Msg("user", response, <<>>)>>) : f \in forwards}

\* handleWeb3Submenu(msg, buttonText, response): the response with the main
\* keyboard after 'Back to Main', with the Web3 keyboard otherwise
handleWeb3Submenu(buttonText, response) ==
    {Did(<<"handleWeb3Submenu">>,
         <<Msg("user", response,
               IF buttonText = B_backToMain THEN <<"mainKeyboard">>
               ELSE <<"web3Keyboard">>)>>)}

\* processUserQuestion(userQuestion, userId): the answer of the matched
\* entry, or the fallback response without a match
processUserQuestion(list, fallbacks, q, randomIndex) ==
    LET match == findBestMatch(list, fallbacks, q, randomIndex)
    IN  IF match # Null /\ match[1].faq # Null
        THEN [success |-> TRUE, answer |-> match[1].faq[1].answer,
              matchType |-> match[1].matchType]
        ELSE [success |-> FALSE,
              answer |-> getRandomFallback(fallbacks, randomIndex).response,
              matchType |-> "fallback"]

\* handleMessage(msg) of the server: the outcomes for one message
serverHandleMessage(configured, list, fallbacks, t) ==
    IF t = Undefined \/ t = <<>>
    THEN {Did(<<"handleMessage">>, <<>>)}
    ELSE LET keyboardResponse == getKeyboardResponseMessage(t)
             web3Response == getWeb3SubmenuResponse(t)
         IN  IF keyboardResponse # ""
             THEN {Did(<<"handleMessage", "getKeyboardResponseMessage">> \o o.steps,
                       o.msgs) :
                   o \in handleKeyboardButton(configured, t, keyboardResponse)}
             ELSE IF web3Response # ""
             THEN {Did(<<"handleMessage", "getKeyboardResponseMessage",
                         "getWeb3SubmenuResponse">> \o o.steps, o.msgs) :
                   o \in handleWeb3Submenu(t, web3Response)}
             ELSE {LET faqResult == processUserQuestion(list, fallbacks, t, r)
                   IN  Did(<<"handleMessage", "getKeyboardResponseMessage",
                             "getWeb3SubmenuResponse", "processUserQuestion">>,
                           <<Msg("user", "faq_response", faqResult.answer)>>) :
                   r \in RandomIndexes(fallbacks)}

\* the texts sent to the server: no text, the empty text, buttons of both
\* keyboards and questions
ServerTexts ==
    {Undefined, <<>>, B_urgentRequest, B_auditRequest, B_web3Faqs, B_livePrices,
     B_backToMain, B_hello, E_defi.question, T_safe, T_tellMeAboutDefi}

ServerInit ==
    /\ serverText \in ServerTexts
    /\ serverGroupConfigured \in BOOLEAN
    /\ serverPc = "received"
    /\ serverCalls = <<>>
    /\ serverSent = <<>>

ServerIdle ==
    /\ serverText = <<>>
    /\ serverGroupConfigured = FALSE
    /\ serverPc = "idle"
    /\ serverCalls = <<>>
    /\ serverSent = <<>>

\* the FAQ lists of the server's FAQHandler
ServerStore ==
    /\ faqs \in {<<>>, <<E_defi>>, <<E_defi, E_safe>>}
    /\ fallbackResponses \in FallbackLists
    /\ userQuestion = <<>>
    /\ matchPc = "idle"
    /\ matchResult = Null

\* this.bot.on('message', this.handleMessage.bind(this))
ServerHandleMessage ==
    /\ serverPc = "received"
    /\ \E o \in serverHandleMessage(serverGroupConfigured, faqs, fallbackResponses,
                                    serverText) :
           /\ serverCalls' = o.steps
           /\ serverSent' = o.msgs
    /\ serverPc' = "done"
    /\ UNCHANGED <<serverText, serverGroupConfigured>>
    /\ UNCHANGED matchVars
    /\ UNCHANGED analyzeVars
    /\ UNCHANGED routeVars
    /\ UNCHANGED priceVars
    /\ UNCHANGED storeVars
    /\ UNCHANGED queryVars
    /\ UNCHANGED searchVars
    /\ UNCHANGED normVars
    /\ UNCHANGED cacheVars

(***************************************************************************)
(* The price cache of getCryptoPrice over time.  Date.now() is counted in  *)
(* minutes; a call ends within the minute it started in (the provider      *)
(* request times out after ten seconds).                                   *)
(***************************************************************************)
\* the getCryptoPrice calls of one run
MaxPriceCalls == 3

\* the last minute of the clock
MaxMinutes == 6

\* this.cacheTimeout = 5 * 60 * 1000, in minutes
cacheTimeout == 5

\* variant: an entry is still fresh at the age of cacheTimeout
isFresh_orEqual(now, timestamp) == now - timestamp <= cacheTimeout

\* Date.now() - cached.timestamp < this.cacheTimeout
isFresh(now, timestamp) == now - timestamp < cacheTimeout

C_BTC == <<"B","T","C">>
C_btc == <<"b","t","c">>
C_eth == <<"e","t","h">>

\* getCryptoPrice(symbol)
CacheSymbols == {C_BTC, C_btc, C_eth}

\* the provider answers, has no data for the coin, or times out
CacheOutcomes == {"ok", "nodata", "timeout"}

CacheInit ==
    /\ cacheClock = 0
    /\ cacheStamps = <<>>
    /\ priceCalls = <<>>

CacheIdle ==
    /\ cacheClock = 0
    /\ cacheStamps = <<>>
    /\ priceCalls = <<>>

\* a minute passes
CacheTick ==
    /\ cacheClock < MaxMinutes
    /\ cacheClock' = cacheClock + 1
    /\ UNCHANGED <<cacheStamps, priceCalls>>
    /\ UNCHANGED matchVars
    /\ UNCHANGED analyzeVars
    /\ UNCHANGED routeVars
    /\ UNCHANGED priceVars
    /\ UNCHANGED storeVars
    /\ UNCHANGED queryVars
    /\ UNCHANGED searchVars
    /\ UNCHANGED normVars
    /\ UNCHANGED serverVars

\* await web3Handler.getCryptoPrice(symbol)
GetCryptoPrice ==
    /\ Len(priceCalls) < MaxPriceCalls
    /\ \E symbol \in CacheSymbols, outcome \in CacheOutcomes :
           LET cacheKey == priceKey(symbol)
               expired == /\ cacheKey \in DOMAIN cacheStamps
                          /\ ~isFresh(cacheClock, cacheStamps[cacheKey])
               r == getCryptoPrice(Some(symbol), DOMAIN cacheStamps, expired, outcome)
           IN  /\ cacheStamps' =
                      [k \in r.cache |->
                          IF k = cacheKey /\ r.called /\ r.ok THEN cacheClock
                          ELSE cacheStamps[k]]
               /\ priceCalls' = Append(priceCalls,
                      [symbol |-> symbol, at |-> cacheClock, called |-> r.called,
                       ok |-> r.ok, error |-> r.error])
    /\ UNCHANGED cacheClock
    /\ UNCHANGED matchVars
    /\ UNCHANGED analyzeVars
    /\ UNCHANGED routeVars
    /\ UNCHANGED priceVars
    /\ UNCHANGED storeVars
    /\ UNCHANGED queryVars
    /\ UNCHANGED searchVars
    /\ UNCHANGED normVars
    /\ UNCHANGED serverVars

(***************************************************************************)
(* normalizeText on its own, applied to a text and then to its result.     *)
(***************************************************************************)
\* the longest text normalized
MaxChars == 3

\* characters of every class normalizeText tells apart: an upper-case
\* letter, a lower-case letter, a digit, the underscore, white space and
\* punctuation
NormChars == {"A", "b", "1", "_", " ", "\t", "?"}

NormTexts == UNION {[1..n -> NormChars] : n \in 0..MaxChars}

NormInit ==
    /\ normText \in NormTexts
    /\ normPc = "ready"
    /\ normalizedOnce = <<>>
    /\ normalizedTwice = <<>>

NormIdle ==
    /\ normText = <<>>
    /\ normPc = "idle"
    /\ normalizedOnce = <<>>
    /\ normalizedTwice = <<>>

\* normalizeText(text)
NormalizeText ==
    /\ normPc = "ready"
    /\ normalizedOnce' = normalizeText(normText)
    /\ normPc' = "once"
    /\ UNCHANGED <<normText, normalizedTwice>>
    /\ UNCHANGED matchVars
    /\ UNCHANGED analyzeVars
    /\ UNCHANGED routeVars
    /\ UNCHANGED priceVars
    /\ UNCHANGED storeVars
    /\ UNCHANGED queryVars
    /\ UNCHANGED searchVars
    /\ UNCHANGED cacheVars
    /\ UNCHANGED serverVars

\* normalizeText(normalizeText(text))
NormalizeAgain ==
    /\ normPc = "once"
    /\ normalizedTwice' = normalizeText(normalizedOnce)
    /\ normPc' = "twice"
    /\ UNCHANGED <<normText, normalizedOnce>>
    /\ UNCHANGED matchVars
    /\ UNCHANGED analyzeVars
    /\ UNCHANGED routeVars
    /\ UNCHANGED priceVars
    /\ UNCHANGED storeVars
    /\ UNCHANGED queryVars
    /\ UNCHANGED searchVars
    /\ UNCHANGED cacheVars
    /\ UNCHANGED serverVars

(***************************************************************************)
(* Specification of the handling of one message.                           *)
(***************************************************************************)
R_btc == <<"B","T","C">>
R_price == <<"p","r","i","c","e">>
R_dollar == <<"$","d","e","f","i">>
R_urgent == <<"u","r","g","e","n","t">>
R_defi == <<"D","e","F","i">>
R_trending == <<"t","r","e","n","d","i","n","g">>
R_hello == <<"h","e","l","l","o">>
RouteTokens == {R_btc, R_price, R_dollar, R_urgent, R_defi, R_trending, R_hello}

X_start == <<"/","s","t","a","r","t">>
X_tab == <<"p","r","i","c","e","\t","s","o","l">>
X_twoSpaces == <<"p","r","i","c","e"," "," ","s","o","l">>
X_press == <<"p","r","e","s","s">>
X_marketCap == <<"m","a","r","k","e","t"," ","c","a","p">>
X_question == <<"W","h","a","t"," ","i","s"," ","D","e","F","i","?">>
X_padded == <<" ","e","t","h"," ","p","r","i","c","e"," ">>

\* the texts of a message; Undefined is a message without text
MessageTexts ==
    TextsUpTo(RouteTokens, MaxRouteWords) \cup keyboardLabels
        \cup {X_start, X_tab, X_twoSpaces, X_press, X_marketCap, X_question,
              X_padded, Undefined}

RouteFaqLists == {<<>>, <<E_defi>>, <<E_risks, E_defi>>}

PriceCaches == {{}, {priceKey(toLowerCase(R_btc)), trendingKey, marketKey}}

RouteInit ==
    /\ handlerVariant \in {"webhook", "polling"}
    /\ faqHandlerKind \in {"keyword", "fuzzy"}
    /\ actionGroupConfigured \in BOOLEAN
    /\ priceCache \in PriceCaches
    /\ userSessions = {}
    /\ msgText \in MessageTexts
    /\ routePc = "received"
    /\ calls = <<>>
    /\ sent = <<>>
    /\ unhandled = FALSE

\* the message handler is not run in this specification
RouteIdle ==
    /\ handlerVariant = "webhook"
    /\ faqHandlerKind = "keyword"
    /\ actionGroupConfigured = FALSE
    /\ priceCache = {}
    /\ userSessions = {}
    /\ msgText = <<>>
    /\ routePc = "idle"
    /\ calls = <<>>
    /\ sent = <<>>
    /\ unhandled = FALSE

\* the FAQ store the handler reads
RouteStore ==
    /\ faqs \in RouteFaqLists
    /\ fallbackResponses \in FallbackLists
    /\ userQuestion = <<>>
    /\ matchPc = "idle"
    /\ matchResult = Null

ChatId == 1

\* one run of the bot.on('message') callback
OnMessage ==
    /\ routePc = "received"
    /\ LET c == [variant |-> handlerVariant, faqHandler |-> faqHandlerKind,
                 actionGroup |-> actionGroupConfigured, faqs |-> faqs,
                 fallbacks |-> fallbackResponses]
       IN  \E o \in onMessage(c, msgText, priceCache) :
               /\ calls' = o.steps
               /\ sent' = o.msgs
               /\ priceCache' = o.cache
               /\ unhandled' = o.thrown
    /\ userSessions' = IF msgText # Undefined /\ startsWith(msgText, <<"/">>)
                       THEN userSessions ELSE userSessions \cup {ChatId}
    /\ routePc' = "done"
    /\ UNCHANGED <<handlerVariant, faqHandlerKind, actionGroupConfigured, msgText>>
    /\ UNCHANGED matchVars
    /\ UNCHANGED analyzeVars
    /\ UNCHANGED priceVars
    /\ UNCHANGED storeVars
    /\ UNCHANGED queryVars
    /\ UNCHANGED searchVars
    /\ UNCHANGED normVars
    /\ UNCHANGED cacheVars
    /\ UNCHANGED serverVars

InitRoute == RouteInit /\ RouteStore /\ AnalyzeIdle /\ PriceIdle /\ StoreIdle /\ QueryIdle /\ SearchIdle /\ NormIdle /\ CacheIdle /\ ServerIdle

NextRoute == OnMessage

SpecRoute == InitRoute /\ [][NextRoute]_vars

(***************************************************************************)
(* Specification of a findBestMatch call.                                  *)
(***************************************************************************)
MatchInit ==
    /\ faqs \in FaqLists
    /\ fallbackResponses \in FallbackLists
    /\ userQuestion \in Questions
    /\ matchPc = "call"
    /\ matchResult = Null

\* await faqHandler.findBestMatch(userQuestion)
FindBestMatch ==
    /\ matchPc = "call"
    /\ \E randomIndex \in RandomIndexes(fallbackResponses) :
           matchResult' = findBestMatch(faqs, fallbackResponses, userQuestion, randomIndex)
    /\ matchPc' = "done"
    /\ UNCHANGED <<faqs, fallbackResponses, userQuestion>>
    /\ UNCHANGED analyzeVars
    /\ UNCHANGED routeVars
    /\ UNCHANGED priceVars
    /\ UNCHANGED storeVars
    /\ UNCHANGED queryVars
    /\ UNCHANGED searchVars
    /\ UNCHANGED normVars
    /\ UNCHANGED cacheVars
    /\ UNCHANGED serverVars

Init == MatchInit /\ AnalyzeIdle /\ RouteIdle /\ PriceIdle /\ StoreIdle /\ QueryIdle /\ SearchIdle /\ NormIdle /\ CacheIdle /\ ServerIdle

Next == FindBestMatch

Spec == Init /\ [][Next]_vars

\* findBestMatch is not called in this specification
MatchIdle ==
    /\ faqs = <<>>
    /\ fallbackResponses = <<>>
    /\ userQuestion = <<>>
    /\ matchPc = "idle"
    /\ matchResult = Null

InitAnalyze == AnalyzeInit /\ MatchIdle /\ RouteIdle /\ PriceIdle /\ StoreIdle /\ QueryIdle /\ SearchIdle /\ NormIdle /\ CacheIdle /\ ServerIdle

NextAnalyze == AnalyzeMessage

SpecAnalyze == InitAnalyze /\ [][NextAnalyze]_vars

InitPrice == PriceInit /\ MatchIdle /\ AnalyzeIdle /\ RouteIdle /\ StoreIdle /\ QueryIdle /\ SearchIdle /\ NormIdle /\ CacheIdle /\ ServerIdle

NextPrice == CheckPrice

SpecPrice == InitPrice /\ [][NextPrice]_vars

InitStore == StoreInit /\ MatchIdle /\ AnalyzeIdle /\ RouteIdle /\ PriceIdle /\ QueryIdle /\ SearchIdle /\ NormIdle /\ CacheIdle /\ ServerIdle

NextStore ==
    \/ ReadFile
    \/ ReadFails
    \/ AssignLoaded
    \/ Tick
    \/ \E i \in 1..MaxAdds : CallAddFAQ(i)
    \/ \E i \in 1..MaxAdds : CallAddfaqCommand(i)
    \/ \E i \in 1..MaxAdds : WriteSucceeds(i)
    \/ \E i \in 1..MaxAdds : WriteFails(i)
    \/ AskStore

SpecStore == InitStore /\ [][NextStore]_vars

InitQuery == QueryInit /\ QueryStore /\ AnalyzeIdle /\ RouteIdle /\ PriceIdle /\ StoreIdle /\ SearchIdle /\ NormIdle /\ CacheIdle /\ ServerIdle

NextQuery == CallWithQuery

SpecQuery == InitQuery /\ [][NextQuery]_vars

InitSearch ==
    SearchInit /\ SearchStore /\ AnalyzeIdle /\ RouteIdle /\ PriceIdle /\ StoreIdle /\ QueryIdle /\ NormIdle /\ CacheIdle
        /\ ServerIdle

NextSearch == SearchFAQs \/ SearchCommand

SpecSearch == InitSearch /\ [][NextSearch]_vars

InitNorm ==
    NormInit /\ MatchIdle /\ AnalyzeIdle /\ RouteIdle /\ PriceIdle /\ StoreIdle /\ QueryIdle /\ SearchIdle /\ CacheIdle
        /\ ServerIdle

NextNorm == NormalizeText \/ NormalizeAgain

SpecNorm == InitNorm /\ [][NextNorm]_vars

InitCache ==
    CacheInit /\ MatchIdle /\ AnalyzeIdle /\ RouteIdle /\ PriceIdle /\ StoreIdle /\ QueryIdle /\ SearchIdle /\ NormIdle
        /\ ServerIdle

NextCache == CacheTick \/ GetCryptoPrice

SpecCache == InitCache /\ [][NextCache]_vars

InitServer ==
    ServerInit /\ ServerStore /\ AnalyzeIdle /\ RouteIdle /\ PriceIdle /\ StoreIdle /\ QueryIdle
        /\ SearchIdle /\ NormIdle /\ CacheIdle

NextServer == ServerHandleMessage

SpecServer == InitServer /\ [][NextServer]_vars

(***************************************************************************)
(* Properties of findBestMatch.  The reference scores below are written    *)
(* from the specification text, independently of the passes above.         *)
(***************************************************************************)
MatchDone == matchPc = "done"

\* the question is empty or consists of whitespace only
QuestionIsWhitespace == \A i \in 1..Len(userQuestion) : IsSpaceChar(userQuestion[i])

ResultType == IF matchResult = Null THEN "null" ELSE matchResult[1].matchType

IsFallbackResult ==
    /\ matchResult # Null
    /\ matchResult[1].faq = Null
    /\ REq(matchResult[1].confidence, RZero)
    /\ matchResult[1].matchType = "fallback"

Entries == 1..Len(faqs)

\* matched keywords / all keywords of an entry against the normalized question
KeywordOverlap(nq, kws) ==
    IF Len(kws) = 0 THEN RZero
    ELSE Rat(Cardinality({k \in 1..Len(kws) : includes(nq, toLowerCase(kws[k]))}),
             Len(kws))

\* 0.7 * similarity + 0.3 * keyword overlap
Blend(sim, kw) ==
    Rat(7 * sim[1] * kw[2] + 3 * kw[1] * sim[2], 10 * sim[2] * kw[2])

\* the words of length > 2 of the normalized question
QuestionWords(nq) == SelectSeq(split(nq), LAMBDA w : Len(w) > 2)

\* matched words / words of length > 2 (for a question that has such words)
WordOverlap(words, nfq) ==
    Rat(Cardinality({j \in 1..Len(words) : includes(nfq, words[j])}), Len(words))

\* the reference scores of a state: per entry the keyword overlap, the
\* blended score and the word overlap (Null when the question has no word)
Scores ==
    LET nq == normalizeText(userQuestion)
        words == QuestionWords(nq)
        nfq == [i \in Entries |-> normalizeText(faqs[i].question)]
        kw == [i \in Entries |-> KeywordOverlap(nq, faqs[i].keywords)]
    IN  [direct |-> \E i \in Entries : nfq[i] = nq,
         empty |-> nq = <<>>,
         keyword |-> kw,
         blend |-> [i \in Entries |-> Blend(jaroWinkler(nq, nfq[i]), kw[i])],
         hasWords |-> words # <<>>,
         words |-> [i \in Entries |->
                       IF words = <<>> THEN RZero ELSE WordOverlap(words, nfq[i])]]

\* some score of the vector f is at least t
Clears(f, t) == \E i \in DOMAIN f : RGe(f[i], t)

\* f[i] is the highest score of the vector f
IsMax(f, i) == \A j \in DOMAIN f : RGe(f[i], f[j])

\* the first position of the highest score of the vector f
FirstMax(f) == CHOOSE i \in DOMAIN f : IsMax(f, i) /\ \A j \in 1..(i - 1) : ~IsMax(f, j)

\* the result carries the entry at position i of the list
Returns(i) == matchResult # Null /\ matchResult[1].faq = Some(faqs[i])

\* C1: for any entry E with question Q, findBestMatch(Q) returns E with
\* confidence 1.0 and matchType direct, whatever the other entries score.
C1_DirectMatchPrecedence ==
    MatchDone =>
        \A i \in Entries :
            userQuestion = faqs[i].question =>
                /\ Returns(i)
                /\ REq(matchResult[1].confidence, ROne)
                /\ matchResult[1].matchType = "direct"

\* C2 as stated: a question that is empty after normalization (also one of
\* punctuation only) yields entry null, confidence 0, matchType fallback.
C2_EmptyAfterNormalization ==
    (MatchDone /\ normalizeText(userQuestion) = <<>>) => IsFallbackResult

\* C2 as amended: a question that is empty or consists of whitespace only
\* yields entry null, confidence 0, matchType fallback.
C2_BlankQuestionFallback ==
    (MatchDone /\ QuestionIsWhitespace) => IsFallbackResult

C2_Witness ==
    MatchDone /\ userQuestion = <<" ">> /\ faqs # <<>> /\ IsFallbackResult

\* C3: for a non-blank question without direct match, the result is of type
\* keyword exactly when the highest keyword-overlap score is at least 0.9,
\* and its confidence is then that highest score.
C3_KeywordThreshold ==
    (MatchDone /\ ~QuestionIsWhitespace) =>
        LET sc == Scores
        IN  ~sc.direct =>
                /\ (ResultType = "keyword") <=> Clears(sc.keyword, Rat(9, 10))
                /\ ResultType = "keyword" =>
                       REq(matchResult[1].confidence, sc.keyword[FirstMax(sc.keyword)])

\* a score of exactly 0.9 returned as keyword
C3_Witness ==
    /\ MatchDone /\ ~QuestionIsWhitespace /\ ~Scores.direct
    /\ ResultType = "keyword"
    /\ REq(matchResult[1].confidence, Rat(9, 10))

\* a best score of 0.8 not returned as keyword
C3_BelowThreshold ==
    /\ MatchDone /\ ~QuestionIsWhitespace /\ ~Scores.direct
    /\ ResultType # "keyword"
    /\ Clears(Scores.keyword, Rat(8, 10))

\* C4: when the keyword stage did not return, the result is of type fuzzy
\* exactly when the largest 0.7 * similarity + 0.3 * keywordOverlap is at
\* least 0.9; the entry returned attains that maximum and the confidence
\* equals it.
C4_FuzzyThreshold ==
    (MatchDone /\ ~QuestionIsWhitespace) =>
        LET sc == Scores
        IN  ~Clears(sc.keyword, Rat(9, 10)) =>
                /\ (ResultType = "fuzzy") <=> Clears(sc.blend, Rat(9, 10))
                /\ ResultType = "fuzzy" =>
                       \E i \in Entries : /\ IsMax(sc.blend, i)
                                          /\ Returns(i)
                                          /\ REq(matchResult[1].confidence, sc.blend[i])

C4_Witness ==
    /\ MatchDone /\ ~QuestionIsWhitespace /\ ResultType = "fuzzy"
    /\ Len(faqs) = 2
    /\ ~Clears(Scores.keyword, Rat(9, 10))

\* the question reaches the partial stage
ReachesPartialStage(sc) ==
    /\ ~Clears(sc.keyword, Rat(9, 10))
    /\ ~Clears(sc.blend, Rat(9, 10))

\* the best word overlap is at least t
WordsClear(sc, t) == sc.hasWords /\ Clears(sc.words, t)

PartialResultIsBest(sc) ==
    /\ ResultType = "partial"
    /\ REq(matchResult[1].confidence, sc.words[FirstMax(sc.words)])

\* C5 as stated: when no earlier stage returned, a best partial word-overlap
\* score of at least 0.5 is returned as matchType partial with that score.
C5_PartialAtHalf ==
    (MatchDone /\ ~QuestionIsWhitespace) =>
        LET sc == Scores
        IN  (ReachesPartialStage(sc) /\ WordsClear(sc, Rat(1, 2)))
                => PartialResultIsBest(sc)

\* C5 as amended: when no earlier stage returned, a best partial word-overlap
\* score of at least 0.7 is returned as matchType partial with that score.
C5_PartialAtSevenTenths ==
    (MatchDone /\ ~QuestionIsWhitespace) =>
        LET sc == Scores
        IN  (ReachesPartialStage(sc) /\ WordsClear(sc, Rat(7, 10)))
                => PartialResultIsBest(sc)

C5_Witness ==
    /\ MatchDone /\ ~QuestionIsWhitespace /\ ResultType = "partial"
    /\ Len(faqs) = 2
    /\ ReachesPartialStage(Scores) /\ WordsClear(Scores, Rat(7, 10))

\* no stage clears the threshold the code applies to it
NoStageClears(sc) ==
    ReachesPartialStage(sc) /\ ~WordsClear(sc, Rat(7, 10))

\* C6 as stated: when no stage clears its threshold the result is an object
\* with entry null, confidence 0 and matchType fallback.
C6_MissIsFallbackObject ==
    (MatchDone /\ ~QuestionIsWhitespace) =>
        (NoStageClears(Scores) => IsFallbackResult)

\* C6 as amended: when no stage clears its threshold (0.9 keyword, 0.9 fuzzy,
\* 0.7 partial) the call resolves to null, without raising.
C6_MissIsNull ==
    (MatchDone /\ ~QuestionIsWhitespace) =>
        (NoStageClears(Scores) => matchResult = Null)

C6_Witness ==
    /\ MatchDone /\ ~QuestionIsWhitespace /\ matchResult = Null
    /\ Len(faqs) = 2
    /\ NoStageClears(Scores) /\ Scores.hasWords

\* C7: in the keyword, fuzzy and partial stage alike, of the entries tying
\* for the highest score the first of the list is the one returned.
C7_FirstInListWins ==
    (MatchDone /\ ResultType \in {"keyword", "fuzzy", "partial"}) =>
        LET sc == Scores
        IN  /\ ResultType = "keyword" => Returns(FirstMax(sc.keyword))
            /\ ResultType = "fuzzy" => Returns(FirstMax(sc.blend))
            /\ ResultType = "partial" => Returns(FirstMax(sc.words))

\* two entries tie for the highest blended score and the first is returned
C7_Witness ==
    /\ MatchDone /\ ResultType = "fuzzy" /\ Len(faqs) = 2
    /\ REq(Scores.blend[1], Scores.blend[2])
    /\ Returns(1)

\* ties that occur in the keyword and in the partial stage
C7_KeywordTie ==
    /\ MatchDone /\ ResultType = "keyword" /\ Len(faqs) = 2
    /\ REq(Scores.keyword[1], Scores.keyword[2])

C7_PartialTie ==
    /\ MatchDone /\ ResultType = "partial" /\ Len(faqs) = 2
    /\ REq(Scores.words[1], Scores.words[2])

(***************************************************************************)
(* Properties of analyzeMessage.                                           *)
(***************************************************************************)
AnalyzeDone == analyzePc = "done"

\* number of keywords of the list that the lower-cased text contains
Hits(keywords) ==
    Cardinality({i \in 1..Len(keywords) :
        includes(toLowerCase(analyzedText), keywords[i])})

\* what the text contains: hits per category and per generic distress word,
\* and the confidence they add up to, in hundredths
TextHits ==
    LET u == Hits(urgentKeywords)
        m == Hits(mediaKeywords)
        a == Hits(auditKeywords)
        g == Hits(urgencyIndicators)
    IN  [urgent |-> u, media |-> m, audit |-> a, distress |-> g,
         hundredths |-> 30 * u + 25 * m + 25 * a + 10 * g]

\* C8 as stated: a text matching a keyword of any category (urgent, media or
\* audit) is classified with priority high and should-forward true.
C8_AnyCategoryEscalates ==
    AnalyzeDone =>
        LET h == TextHits
        IN  (h.urgent + h.media + h.audit > 0) =>
                analysis.priority = "high" /\ analysis.shouldAutoForward

\* C8, what the code does: a text matching an urgent keyword is classified with
\* priority high and should-forward true whatever the confidence; a text
\* matching only media or audit keywords keeps a priority below high and has
\* should-forward true exactly when the accumulated confidence exceeds 0.5.
C8_UrgentEscalates ==
    AnalyzeDone =>
        LET h == TextHits
        IN  /\ h.urgent > 0 =>
                   analysis.priority = "high" /\ analysis.shouldAutoForward
            /\ (h.urgent = 0 /\ h.media + h.audit > 0) =>
                   /\ analysis.priority \in {"normal", "medium"}
                   /\ analysis.shouldAutoForward <=> (h.hundredths > 50)

\* one urgent keyword, confidence 0.3, forwarded with priority high
C8_Witness ==
    /\ AnalyzeDone
    /\ TextHits.urgent = 1 /\ TextHits.hundredths = 30
    /\ analysis.priority = "high" /\ analysis.shouldAutoForward

\* media and audit keywords whose confidence exceeds 0.5: forwarded, not high
C8_MediaAuditForwarded ==
    /\ AnalyzeDone
    /\ TextHits.urgent = 0 /\ TextHits.media + TextHits.audit > 0
    /\ analysis.shouldAutoForward /\ analysis.priority # "high"

\* C9 as stated: without category match, should-forward is true with
\* priority medium exactly when the generic-distress confidence exceeds 0.5;
\* otherwise the priority is normal and the message is not forwarded.
C9_DistressOtherwiseNormal ==
    AnalyzeDone =>
        LET h == TextHits
        IN  (h.urgent + h.media + h.audit = 0) =>
                IF h.hundredths > 50
                THEN analysis.shouldAutoForward /\ analysis.priority = "medium"
                ELSE ~analysis.shouldAutoForward /\ analysis.priority = "normal"

\* C9 as amended: without category match, should-forward is true exactly when
\* the generic-distress confidence exceeds 0.5, and the priority is medium
\* as soon as one distress word matched (forwarded or not), normal if none.
C9_DistressForwarding ==
    AnalyzeDone =>
        LET h == TextHits
        IN  (h.urgent + h.media + h.audit = 0) =>
                /\ analysis.shouldAutoForward <=> (h.hundredths > 50)
                /\ analysis.priority = IF h.distress > 0 THEN "medium" ELSE "normal"

\* six distress words and no category keyword: forwarded with priority medium
C9_Witness ==
    /\ AnalyzeDone
    /\ TextHits.urgent + TextHits.media + TextHits.audit = 0
    /\ TextHits.hundredths > 50
    /\ analysis.shouldAutoForward /\ analysis.priority = "medium"

\* five distress words and no category keyword: confidence 0.5, not forwarded
C9_AtThreshold ==
    /\ AnalyzeDone
    /\ TextHits.urgent + TextHits.media + TextHits.audit = 0
    /\ TextHits.hundredths = 50
    /\ ~analysis.shouldAutoForward /\ analysis.priority = "medium"

(***************************************************************************)
(* Properties of the message handler.                                      *)
(***************************************************************************)
RouteDone == routePc = "done"

\* the handler made the call for the message
Performed(step) == \E i \in 1..Len(calls) : calls[i] = step

\* how often the handler made the call
TimesPerformed(step) == Cardinality({i \in 1..Len(calls) : calls[i] = step})

\* a message was delivered to the action group
SentToGroup == \E i \in 1..Len(sent) : sent[i].to = "group"

\* the message is a text, not a keyboard label, and a price query
PriceQueryText ==
    /\ msgText # Undefined
    /\ msgText \notin keyboardLabels
    /\ isPriceQuery(msgText)

\* the replies of handlePriceQuery: the price or the message of the error
PriceReplies == {"price", "rateLimited", "notFound", "timeout", "unavailable"}

\* the price path ran, and neither the FAQ lookup nor the forwarding did
OnlyPricePath ==
    /\ Performed("handlePriceQuery")
    /\ ~Performed("findFAQResponse")
    /\ ~Performed("handleGeneralMessage")
    /\ ~Performed("forwardToActionGroup")
    /\ ~SentToGroup
    /\ ~unhandled
    /\ Len(sent) = 1 /\ sent[1].to = "user" /\ sent[1].kind \in PriceReplies

\* C10 as stated: a text message (not a keyboard label) for which
\* isPriceQuery is true is handled only by the price path: neither FAQ
\* matching nor category classification or forwarding is performed for it.
C10_PricePathOnly ==
    (RouteDone /\ PriceQueryText) =>
        OnlyPricePath /\ ~Performed("analyzeMessage")

\* C10 as amended: such a message is answered only by the price path, and
\* neither FAQ matching nor forwarding is performed for it; the category
\* classification is performed once, before the routing, and whatever it
\* finds has no effect on the reply.
C10_PriceBypassesFaqAndForwarding ==
    (RouteDone /\ PriceQueryText) =>
        /\ OnlyPricePath
        /\ calls[1] = "analyzeMessage"
        /\ TimesPerformed("analyzeMessage") = 1

\* a price query that the classifier marks urgent and for forwarding, with
\* an action group configured, is answered with the price alone
C10_Witness ==
    /\ RouteDone /\ PriceQueryText
    /\ analyzeMessage(msgText).isUrgent /\ analyzeMessage(msgText).shouldAutoForward
    /\ actionGroupConfigured
    /\ sent = <<Msg("user", "price", extractSymbol(msgText)[1])>>

\* a price query that an FAQ entry would match is answered with the price
C10_FaqShapedPriceQuery ==
    /\ RouteDone /\ PriceQueryText
    /\ faqHandlerKind = "keyword" /\ findFAQResponse(faqs, msgText) # Null
    /\ sent[1].kind = "price"

\* the text holds one of the keywords of handleWeb3Keywords
HasWeb3Keyword ==
    msgText # Undefined /\ handleWeb3Keywords(msgText, {}) # Null

\* a text, neither keyboard label nor price query nor Web3 keyword nor
\* command, for which the classifier found a category and signals forwarding
CategoryText ==
    /\ msgText # Undefined /\ msgText # <<>>
    /\ ~startsWith(msgText, <<"/">>)
    /\ msgText \notin keyboardLabels
    /\ ~isPriceQuery(msgText)
    /\ ~HasWeb3Keyword
    /\ LET a == analyzeMessage(msgText)
       IN  (a.isUrgent \/ a.isMedia \/ a.isAudit) /\ a.shouldAutoForward

\* the reply to the user is the acknowledgement of a category
CategoryAcknowledged ==
    \E i \in 1..Len(sent) :
        sent[i].to = "user" /\ sent[i].kind \in {"ackUrgent", "ackMedia", "ackAudit"}

\* the reply to the user is an FAQ answer
FaqAnswered == \E i \in 1..Len(sent) : sent[i].to = "user" /\ sent[i].kind = "faq"

\* C11: for a non-price text for which the category classifier signals
\* forwarding, the message is forwarded and answered with the category
\* acknowledgement, and the FAQ answer is not returned even if an FAQ entry
\* would match the text (checked with the FAQHandler that has findFAQResponse).
C11_CategoryPreemptsFaq ==
    (RouteDone /\ CategoryText /\ faqHandlerKind = "keyword") =>
        /\ Performed("forwardToActionGroup")
        /\ CategoryAcknowledged
        /\ ~FaqAnswered

\* what the handler does instead: an urgent text that an FAQ entry matches is
\* answered with the FAQ answer and is not forwarded
C11_FaqAnswersUrgentText ==
    /\ RouteDone /\ CategoryText /\ faqHandlerKind = "keyword"
    /\ analyzeMessage(msgText).isUrgent
    /\ actionGroupConfigured
    /\ FaqAnswered
    /\ ~Performed("forwardToActionGroup") /\ ~SentToGroup

\* without a matching FAQ entry the text is forwarded and acknowledged
C11_ForwardedWithoutFaqMatch ==
    (RouteDone /\ CategoryText /\ faqHandlerKind = "keyword"
        /\ findFAQResponse(faqs, msgText) = Null) =>
        /\ Performed("forwardToActionGroup")
        /\ CategoryAcknowledged

(***************************************************************************)
(* Properties of the price check.  The shapes below are read off the       *)
(* white-space separated tokens of the text, not off the patterns.         *)
(***************************************************************************)
PriceDone == pricePc = "done"

\* the symbol extractSymbol returned, when it returned a string
SymbolReturned == priceSymbol # Null

NoUpperCase(s) == \A i \in 1..Len(s) : s[i] \notin UpperLetters

ContainsPrice(s) ==
    \E i \in 1..Len(s) : i + 4 <= Len(s) /\ SubSeq(s, i, i + 4) = Q_price

\* C12: for every text isPriceQuery accepts, extractSymbol returns a
\* non-empty, lower-case token without '$' that does not contain "price".
C12_SymbolIsCleanToken ==
    (PriceDone /\ priceIsQuery) =>
        /\ SymbolReturned
        /\ priceSymbol[1] # <<>>
        /\ NoUpperCase(priceSymbol[1])
        /\ \A i \in 1..Len(priceSymbol[1]) : priceSymbol[1][i] # "$"
        /\ ~ContainsPrice(priceSymbol[1])

\* C12, what the code does: a symbol that is returned is lower-case and
\* holds no '$'.
C12_SymbolLowerCaseNoDollar ==
    (PriceDone /\ priceIsQuery /\ SymbolReturned) =>
        /\ NoUpperCase(priceSymbol[1])
        /\ \A i \in 1..Len(priceSymbol[1]) : priceSymbol[1][i] # "$"

\* C12: "price" and a word two spaces apart is a price query with the
\* empty symbol
C12_EmptySymbol ==
    PriceDone /\ priceIsQuery /\ priceSymbol = Some(<<>>)

\* the maximal runs of characters that are not white space
RECURSIVE tokensOf(_, _, _)
tokensOf(s, cur, acc) ==
    IF s = <<>> THEN (IF cur = <<>> THEN acc ELSE Append(acc, cur))
    ELSE IF s[1] \in {" ", "\t"}
         THEN tokensOf(Tail(s), <<>>, IF cur = <<>> THEN acc ELSE Append(acc, cur))
         ELSE tokensOf(Tail(s), Append(cur, s[1]), acc)

LowerTokens(s) ==
    LET toks == tokensOf(s, <<>>, <<>>)
    IN  [i \in 1..Len(toks) |-> toLowerCase(toks[i])]

\* the shapes of a price query: a bare known ticker, a known ticker and
\* the word "price", "price <word>", "<word> price", "$<word>"
PriceShape(s) ==
    LET toks == LowerTokens(s)
    IN  \/ Len(toks) = 1 /\ toks[1] \in knownTickers
        \/ Len(toks) = 2 /\ toks[1] \in knownTickers /\ toks[2] = Q_price
        \/ Len(toks) = 2 /\ toks[1] = Q_price /\ IsWord(toks[2])
        \/ Len(toks) = 2 /\ IsWord(toks[1]) /\ toks[2] = Q_price
        \/ Len(toks) = 1 /\ toks[1][1] = "$" /\ IsWord(Tail(toks[1]))

\* a known ticker with "price" written directly after it
TickerGluedToPrice(s) ==
    LET toks == LowerTokens(s)
    IN  Len(toks) = 1 /\ \E n \in knownTickers : toks[1] = n \o Q_price

\* C13: isPriceQuery is true exactly for the texts of a price shape.
C13_ExactlyTheShapes ==
    PriceDone => (priceIsQuery <=> PriceShape(priceText))

\* C13, with the glued form: isPriceQuery is true exactly for the texts of
\* a price shape and for a known ticker directly followed by "price".
C13_ShapesOrGluedTicker ==
    PriceDone =>
        (priceIsQuery <=> (PriceShape(priceText) \/ TickerGluedToPrice(priceText)))

\* C13: an unknown word before "price" was accepted, and the state is one
\* of a checked text
C13_Witness ==
    PriceDone /\ priceIsQuery /\ priceText = Q_doge \o SP \o Q_price

\* C13: "what is bitcoin" was rejected
C13_RejectsSentence ==
    PriceDone /\ ~priceIsQuery /\ priceText = Q_whatIsBitcoin

\* C13: a known ticker glued to "price" was accepted
C13_GluedAccepted ==
    PriceDone /\ priceIsQuery /\ priceText = Q_btc \o Q_price

(***************************************************************************)
(* Properties of the FAQ store.                                            *)
(***************************************************************************)
AddIds == 1..MaxAdds

\* call i got as far as pushing an entry
Pushed(i) == addCalls[i].pc \in {"writing", "done", "failed"}

EntrySet(list) == {list[k] : k \in 1..Len(list)}

BlankText(s) == \A k \in 1..Len(s) : s[k] \in {" ", "\t"}

\* the entry of call i, for a call that pushed one
EntryOf(i) == addCalls[i].newFAQ[1]

\* C14: a call whose question or answer is empty after trimming fails with
\* a validation error and adds no entry.
C14_BlankArgumentsAddNothing ==
    \A i \in AddIds :
        Pushed(i) => ~BlankText(addCalls[i].question) /\ ~BlankText(addCalls[i].answer)

\* C14: addFAQ(' ', answer) completed and its entry with the empty question
\* is in the list and in the file
C14_BlankQuestionAdded ==
    \E i \in AddIds :
        /\ addCalls[i].pc = "done"
        /\ BlankText(addCalls[i].question)
        /\ EntryOf(i).question = <<>>
        /\ EntryOf(i) \in EntrySet(faqs)
        /\ EntryOf(i) \in EntrySet(faqFile.faqs)

\* C14: the addfaq command, not addFAQ, is what rejects an empty question
C14_CommandRejectsBlank ==
    \E i \in AddIds : addCalls[i].pc = "rejected" /\ addCalls[i].error = emptyError

\* the best match for the question of call i is the entry of the call or,
\* when the list holds the question more than once, the first entry with it
MatchedByItsQuestion(i) ==
    LET found == findBestMatch(faqs, fallbackResponses, addCalls[i].question, 0)
    IN  /\ found # Null
        /\ found[1].faq # Null
        /\ found[1].faq[1].question = EntryOf(i).question

\* the arguments of call i are not empty after trimming
GoodArguments(i) ==
    ~BlankText(addCalls[i].question) /\ ~BlankText(addCalls[i].answer)

C15_EntryReplacedByLoad ==
    \E i \in AddIds :
        /\ addCalls[i].pc = "failed" /\ ~addCalls[i].loadEnded
        /\ EntryOf(i) \notin EntrySet(faqs)

\* C15: the entry "Q?" of a failed call is in the list and findBestMatch
\* does not find it
C15_ShortQuestionUnmatched ==
    \E i \in AddIds :
        /\ addCalls[i].pc = "failed" /\ addCalls[i].loadEnded
        /\ addCalls[i].question = S_short
        /\ EntryOf(i) \in EntrySet(faqs)
        /\ ~MatchedByItsQuestion(i)

FreshEntry(j) == \A k \in 1..(j - 1) : Pushed(k) => EntryOf(k) # EntryOf(j)

\* C16: of two completed addFAQ calls, the file misses the entry of the
\* later call when the write of the earlier call completed last, and holds
\* it when its own write completed last.
C16_EarlierWriteLandingLastLosesEntry ==
    \A i, j \in AddIds :
        (i < j /\ addCalls[i].pc = "done" /\ addCalls[j].pc = "done" /\ FreshEntry(j)) =>
            /\ lastWrite = i => EntryOf(j) \notin EntrySet(faqFile.faqs)
            /\ lastWrite = j => EntryOf(j) \in EntrySet(faqFile.faqs)

\* C16: two calls completed, the in-memory list holds both entries and the
\* file holds the first only
C16_Witness ==
    /\ addCalls[1].pc = "done" /\ addCalls[2].pc = "done"
    /\ EntryOf(1) # EntryOf(2)
    /\ EntryOf(1) \in EntrySet(faqs) /\ EntryOf(2) \in EntrySet(faqs)
    /\ EntryOf(1) \in EntrySet(faqFile.faqs)
    /\ EntryOf(2) \notin EntrySet(faqFile.faqs)

\* C17: after an addFAQ call completed successfully, the file holds the new
\* entry and every entry that was in the list before it.
C17_FileHoldsAllAfterAdd ==
    \A i \in AddIds :
        addCalls[i].pc = "done" =>
            /\ EntryOf(i) \in EntrySet(faqFile.faqs)
            /\ EntrySet(addCalls[i].before) \subseteq EntrySet(faqFile.faqs)

\* C17, while no later write completed: the file holds exactly the entries
\* that were in the list before the call, followed by the new entry.
C17_FileHoldsAllUntilNextWrite ==
    \A i \in AddIds :
        (addCalls[i].pc = "done" /\ lastWrite = i) =>
            faqFile.faqs = Append(addCalls[i].before, EntryOf(i))

\* C17: a call completed last, with an entry loaded before it
C17_Witness ==
    \E i \in AddIds :
        /\ addCalls[i].pc = "done" /\ lastWrite = i
        /\ E_defi \in EntrySet(addCalls[i].before)
        /\ faqFile.faqs = Append(addCalls[i].before, EntryOf(i))

(***************************************************************************)
(* Properties of the fallback response.                                    *)
(***************************************************************************)
\* findBestMatch returned the fallback object
FallbackReturned ==
    matchPc = "done" /\ matchResult # Null /\ matchResult[1].matchType = "fallback"

\* C19: the fallback response is a defined, non-empty string: an element of
\* the fallback list when the list is not empty, the hardcoded "couldn't
\* understand" string when it is empty.
C19_FallbackIsAString ==
    FallbackReturned =>
        /\ matchResult[1].response # Undefined
        /\ matchResult[1].response # <<>>
        /\ fallbackResponses # <<>> =>
               \E k \in 1..Len(fallbackResponses) :
                   matchResult[1].response = fallbackResponses[k]
        /\ fallbackResponses = <<>> => matchResult[1].response = hardcodedFallback

\* C19, the non-empty list: the fallback response is an element of it
C19_FallbackFromTheList ==
    (FallbackReturned /\ fallbackResponses # <<>>) =>
        \E k \in 1..Len(fallbackResponses) :
            matchResult[1].response = fallbackResponses[k]

\* C19: with an empty fallback list getRandomFallback returned the response
\* undefined
C19_UndefinedResponse ==
    FallbackReturned /\ fallbackResponses = <<>> /\ matchResult[1].response = Undefined

\* C19 for getFallbackResponse of the handler with findFAQResponse: the
\* fallback reply is an element of the list, or the hardcoded string when
\* the list is empty
C19_GetFallbackResponseIsAString ==
    \A k \in 1..Len(sent) :
        sent[k].kind = "fallback" =>
            IF fallbackResponses = <<>> THEN sent[k].body = hardcodedFallback
            ELSE \E n \in 1..Len(fallbackResponses) : sent[k].body = fallbackResponses[n]

(***************************************************************************)
(* Properties of the operations on malformed query input.                  *)
(***************************************************************************)
QueryDone == queryPc = "done"

\* none of the three operations threw, and each gave its no-match outcome
NoMatchOutcome ==
    /\ queryOutcome.match \in {"fallback", "null"}
    /\ queryOutcome.analysis = "no forward"
    /\ queryOutcome.price = "no price query"

\* C18: findBestMatch, the category classifier and isPriceQuery never throw
\* on malformed query input; they yield the fallback / no-match outcome.
C18_MalformedInputNeverThrows == QueryDone => NoMatchOutcome

\* C18 for strings: on the empty string, white space and garbage text none
\* of the three throws, and each yields its no-match outcome.
C18_MalformedStringsNeverThrow ==
    (QueryDone /\ queryInput # Undefined) => NoMatchOutcome

\* C18: for a message without text findBestMatch answered with the fallback
\* while analyzeMessage and isPriceQuery threw
C18_MissingTextThrows ==
    /\ QueryDone /\ queryInput = Undefined
    /\ queryOutcome.match = "fallback"
    /\ queryOutcome.analysis = typeError
    /\ queryOutcome.price = typeError

\* C18: garbage text was answered without a throw
C18_GarbageAnswered ==
    QueryDone /\ queryInput = G_signs \o SP \o G_marks /\ NoMatchOutcome

(***************************************************************************)
(* Properties of the search.                                               *)
(***************************************************************************)
SearchDone == searchPc = "done"

\* t occurs in s, letter case aside
OccursIn(t, s) ==
    \E i \in 0..(Len(s) - Len(t)) :
        \A k \in 1..Len(t) : ToLowerChar(s[i + k]) = ToLowerChar(t[k])

\* the question, the answer or a keyword of the entry contains the term
EntryContains(entry, t) ==
    \/ OccursIn(t, entry.question)
    \/ OccursIn(t, entry.answer)
    \/ \E k \in 1..Len(entry.keywords) : OccursIn(t, entry.keywords[k])

\* the positions of the entries that contain the term
Containing(t) == {k \in 1..Len(faqs) : EntryContains(faqs[k], t)}

\* the result is the entries at the positions P, in the order of the list
IsSublistAt(result, P) ==
    /\ Len(result) = Cardinality(P)
    /\ \A k \in P :
           result[Cardinality({n \in P : n <= k})] = faqs[k]

\* C20: the search returns every entry whose question, answer or keyword
\* contains the term as a case-insensitive substring, all of them and only
\* them, in insertion order.
C20_SearchReturnsAllContaining ==
    SearchDone => IsSublistAt(searchFound, Containing(searchText))

\* C20 for searchFAQs and a term that is not empty
C20_SearchFAQsReturnsAllContaining ==
    (SearchDone /\ searchVia = "searchFAQs" /\ searchText # <<>>) =>
        IsSublistAt(searchFound, Containing(searchText))

\* C20: the search command returned one entry although two contain the term
C20_CommandReturnsOneOfTwo ==
    /\ SearchDone /\ searchVia = "command"
    /\ Cardinality(Containing(searchText)) = 2
    /\ Len(searchFound) = 1

\* C20: the search command found nothing although an entry contains the term
C20_CommandMissesSubstring ==
    /\ SearchDone /\ searchVia = "command" /\ searchError = ""
    /\ Containing(searchText) # {}
    /\ searchFound = <<>>

\* C20: searchFAQs returned two entries in the order of the list
C20_SearchFAQsFindsTwo ==
    /\ SearchDone /\ searchVia = "searchFAQs"
    /\ Len(faqs) = 2 /\ searchFound = faqs

\* C20: searchFAQs returns nothing for the empty term
C20_EmptyTermFindsNothing ==
    /\ SearchDone /\ searchVia = "searchFAQs" /\ searchText = <<>>
    /\ faqs # <<>> /\ searchFound = <<>>

\* ------------------------------------------------------------------
\* Keywords derived by addFAQ
\* ------------------------------------------------------------------

\* C21: addFAQ with a valid question and answer and no keywords produces an
\* entry whose derived keyword list is non-empty and holds no stop word.
C21_DerivedKeywordsNonEmpty ==
    \A i \in AddIds :
        (Pushed(i) /\ GoodArguments(i)) =>
            /\ EntryOf(i).keywords # <<>>
            /\ \A k \in 1..Len(EntryOf(i).keywords) :
                   ~isStopWord(EntryOf(i).keywords[k])

\* C21: the derived keywords of every pushed entry hold no stop word and no
\* word of fewer than three characters
C21_KeywordsHoldNoStopWord ==
    \A i \in AddIds :
        Pushed(i) =>
            \A k \in 1..Len(EntryOf(i).keywords) :
                /\ ~isStopWord(EntryOf(i).keywords[k])
                /\ Len(EntryOf(i).keywords[k]) > 2

\* C21: addFAQ('Q?', 'A.') pushed an entry with no keyword at all
C21_ShortQuestionHasNoKeywords ==
    \E i \in AddIds :
        /\ Pushed(i)
        /\ addCalls[i].question = S_short /\ addCalls[i].answer = S_shortAnswer
        /\ EntryOf(i).keywords = <<>>

\* ------------------------------------------------------------------
\* normalizeText
\* ------------------------------------------------------------------

\* normalizeText ran on the text and on its own result
NormalizedTwice == normPc = "twice"

\* a normalized text: lower-case letters, digits and underscores in words
\* separated by single spaces, no space at either end
IsNormalized(s) ==
    /\ \A k \in 1..Len(s) :
           s[k] \in LowerLetters \cup Digits \cup {"_", " "}
    /\ \A k \in 1..(Len(s) - 1) : ~(s[k] = " " /\ s[k + 1] = " ")
    /\ s # <<>> => (s[1] # " " /\ s[Len(s)] # " ")

\* C22: normalizeText(normalizeText(s)) equals normalizeText(s) for every
\* string s.
C22_NormalizeIsIdempotent ==
    NormalizedTwice => normalizedTwice = normalizedOnce

\* C22: the result of normalizeText is a normalized text
C22_ResultIsNormalized ==
    normPc \in {"once", "twice"} => IsNormalized(normalizedOnce)

\* C22: a text with an upper-case letter, punctuation and white space at an
\* end was changed by the first normalizeText and left alone by the second
C22_Witness ==
    /\ NormalizedTwice
    /\ normText = <<"A", "?", " ">>
    /\ normalizedOnce = <<"a">>
    /\ normalizedTwice = <<"a">>

\* ------------------------------------------------------------------
\* findBestMatch('tell me about defi')
\* ------------------------------------------------------------------

\* findBestMatch('tell me about defi') ran on a list that holds the entry
\* 'What is DeFi?' with the keywords 'defi' and 'decentralized finance'
AskedAboutDefi ==
    /\ MatchDone
    /\ userQuestion = T_tellMeAboutDefi
    /\ E_defi \in EntrySet(faqs)

\* C23: given the entry 'What is DeFi?' with keywords 'defi' and
\* 'decentralized finance', findBestMatch('tell me about defi') returns that
\* entry with matchType keyword or fuzzy and confidence at least 0.5.
C23_TellMeAboutDefiMatches ==
    AskedAboutDefi =>
        /\ matchResult # Null
        /\ matchResult[1].faq = Some(E_defi)
        /\ matchResult[1].matchType \in {"keyword", "fuzzy"}
        /\ RGe(matchResult[1].confidence, Rat(1, 2))

\* C23: with that entry alone in the list the call returns null
C23_TellMeAboutDefiUnmatched ==
    /\ AskedAboutDefi
    /\ faqs = <<E_defi>>
    /\ matchResult = Null

\* C23: the scores of the entry for that question: half of its keywords
\* occur in the question, the blended score is below 0.9 and one of the
\* three words of the question occurs in the entry
C23_ScoresBelowThresholds ==
    AskedAboutDefi =>
        LET userText == normalizeText(userQuestion)
            keywordScore == calculateKeywordScore(userText, E_defi.keywords)
            jaroScore == jaroWinkler(userText, normalizeText(E_defi.question))
        IN  /\ REq(keywordScore, Rat(1, 2))
            /\ RLt(combinedScore(jaroScore, keywordScore), confidenceThreshold)
            /\ partialScore(userText, E_defi) = Some(Rat(1, 3))

\* ------------------------------------------------------------------
\* The price cache over time
\* ------------------------------------------------------------------

PriceCallIds == 1..Len(priceCalls)

\* an earlier call fetched the price of the symbol of call i from the
\* provider less than cacheTimeout before call i
FetchedBefore(i) ==
    \E j \in 1..(i - 1) :
        /\ priceKey(priceCalls[j].symbol) = priceKey(priceCalls[i].symbol)
        /\ priceCalls[j].called /\ priceCalls[j].ok
        /\ priceCalls[i].at - priceCalls[j].at < cacheTimeout

\* C24: a getCryptoPrice call for a symbol whose price was fetched less
\* than the cache TTL of 5 minutes earlier returns the cached result without
\* calling the provider; otherwise the provider is called and its result,
\* if it gave one, is stored in the cache.
C24_CachedWithinTtlElseFetched ==
    \A i \in PriceCallIds :
        LET call == priceCalls[i]
            cacheKey == priceKey(call.symbol)
        IN  IF FetchedBefore(i)
            THEN ~call.called /\ call.ok
            ELSE /\ call.called
                 /\ call.ok =>
                        /\ cacheKey \in DOMAIN cacheStamps
                        /\ cacheStamps[cacheKey] >= call.at
                 /\ (i = Len(priceCalls) /\ ~call.ok) =>
                        \/ cacheKey \notin DOMAIN cacheStamps
                        \/ ~isFresh(cacheClock, cacheStamps[cacheKey])

\* C24: 'BTC' was fetched, 'btc' was answered from the cache four minutes
\* later and fetched again in the fifth minute
C24_Witness ==
    /\ Len(priceCalls) = 3
    /\ priceCalls[1] = [symbol |-> C_BTC, at |-> 0, called |-> TRUE,
                        ok |-> TRUE, error |-> "none"]
    /\ priceCalls[2] = [symbol |-> C_btc, at |-> 4, called |-> FALSE,
                        ok |-> TRUE, error |-> "none"]
    /\ priceCalls[3].symbol = C_btc /\ priceCalls[3].at = 5
    /\ priceCalls[3].called /\ priceCalls[3].ok
    /\ cacheStamps[priceKey(C_btc)] = 5

\* ------------------------------------------------------------------
\* Failed price-provider calls
\* ------------------------------------------------------------------

\* the short messages of the errors getCryptoPrice throws
PriceErrorReplies == {"rateLimited", "notFound", "timeout", "unavailable"}

\* the provider request of the price query ended without a price
ProviderFailed ==
    /\ RouteDone
    /\ Performed("handlePriceQuery")
    /\ \E outcome \in ProviderOutcomes \ {"ok"} : Performed(providerEnd(outcome))

\* C25: a failed or timed-out price-provider call reaches the user as the
\* short message of the error that getCryptoPrice threw, never as a price
\* reply and never as no reply; a timeout is reported as a timeout.
C25_ProviderFailureIsReplied ==
    ProviderFailed =>
        /\ Len(sent) = 1
        /\ sent[1].to = "user"
        /\ sent[1].kind \in PriceErrorReplies
        /\ Performed(providerEnd("timeout")) => sent[1].kind = "timeout"
        /\ ~unhandled

\* C25: the provider timed out on a price query and the user was told so
C25_Witness ==
    /\ ProviderFailed
    /\ Performed(providerEnd("timeout"))
    /\ sent = <<Msg("user", "timeout", <<>>)>>

\* ------------------------------------------------------------------
\* The addfaq command
\* ------------------------------------------------------------------

\* the joined args have the form '<question> | <answer>' with a question
\* and an answer that are not empty
WellFormedArgs(args) ==
    LET parts == splitBar(join(args, SP), <<>>, <<>>)
    IN  /\ Len(parts) >= 2
        /\ ~BlankText(parts[1])
        /\ ~BlankText(parts[2])

\* C26: handleFAQCommand('addfaq', args) succeeds and adds the FAQ whenever
\* the joined args have the form '<question> | <answer>' with non-empty
\* question and answer, also when the text is a single array element.
C26_WellFormedArgsAccepted ==
    \A i \in AddIds :
        addCalls[i].pc = "rejected" => ~WellFormedArgs(addCalls[i].args)

\* C26: args of two or more elements are rejected only if they are not of
\* that form
C26_SeveralElementsAccepted ==
    \A i \in AddIds :
        (addCalls[i].pc = "rejected" /\ Len(addCalls[i].args) >= 2) =>
            ~WellFormedArgs(addCalls[i].args)

\* C26: the single element 'Gas fees | Paid to validators' was rejected
\* with the usage error and nothing was added
C26_SingleElementRejected ==
    \E i \in AddIds :
        /\ addCalls[i].pc = "rejected"
        /\ addCalls[i].args = <<S_gasFees \o <<" ", "|", " ">> \o S_paid>>
        /\ addCalls[i].error = usageError
        /\ addCalls[i].newFAQ = Null

\* ------------------------------------------------------------------
\* The ids of added entries
\* ------------------------------------------------------------------

\* no two entries of the list have the same id
DistinctIds(list) ==
    \A j, k \in 1..Len(list) : j # k => list[j].id # list[k].id

\* C27: every entry added at runtime has an id different from the id of
\* every other entry of the store, also when two are added within the same
\* clock tick.
C27_IdsAreUnique ==
    DistinctIds(faqs)

\* C27: two calls made in the same millisecond left two entries with one
\* id in the list
C27_SameTickSameId ==
    /\ Pushed(1) /\ Pushed(2)
    /\ EntryOf(1).id = EntryOf(2).id
    /\ EntryOf(1).question # EntryOf(2).question
    /\ EntryOf(1) \in EntrySet(faqs) /\ EntryOf(2) \in EntrySet(faqs)

\* ------------------------------------------------------------------
\* Entries stay in the in-memory list
\* ------------------------------------------------------------------

\* list a is the beginning of list b
IsPrefix(a, b) == Len(a) <= Len(b) /\ SubSeq(b, 1, Len(a)) = a

\* C28: an entry that is in the in-memory list stays there, unchanged and
\* in the same relative order, across findBestMatch and addFAQ calls,
\* successful or failed, also for an addFAQ made during the initial load.
C28_EntriesStayInList ==
    [][IsPrefix(faqs, faqs')]_vars

\* C28: once the initial load has ended, every step keeps the entries of
\* the list, unchanged and in order
C28_EntriesStayAfterLoad ==
    [][(loadPc \in {"done", "failed"}) => IsPrefix(faqs, faqs')]_vars

\* C28: an addFAQ call made during the initial load completed, and its
\* entry is no longer in the list the load assigned
C28_AddedDuringLoadDropped ==
    \E i \in AddIds :
        /\ addCalls[i].pc = "done" /\ ~addCalls[i].loadEnded
        /\ loadPc = "done"
        /\ EntryOf(i) \notin EntrySet(faqs)

\* ------------------------------------------------------------------
\* The acknowledgement of a forward
\* ------------------------------------------------------------------

\* the user was told that the message has been forwarded to the team
ToldForwarded ==
    \E i \in 1..Len(sent) :
        /\ sent[i].to = "user"
        /\ sent[i].kind \in {"ackUrgent", "ackMedia", "ackAudit", "ackForwarded"}

\* C30: whenever the bot replies to a user that the message has been
\* forwarded to the team, a forward message for it has been sent to the
\* action group chat, also when no action group is configured or the send
\* fails.
C30_ToldForwardedImpliesForwarded ==
    (RouteDone /\ ToldForwarded) => SentToGroup

\* C30: the reply is sent after forwardToActionGroup was called, whatever
\* that call did
C30_ToldForwardedAfterForwardCall ==
    (RouteDone /\ ToldForwarded) => Performed("forwardToActionGroup")

\* C30: without a configured action group the user was told that the
\* message has been forwarded and nothing was sent to a group
C30_ToldForwardedWithoutGroup ==
    /\ RouteDone /\ ToldForwarded
    /\ ~actionGroupConfigured
    /\ ~Performed("sendToGroup")
    /\ ~SentToGroup

\* C30: the send to the configured action group failed and the user was
\* told that the message has been forwarded
C30_ToldForwardedAfterFailedSend ==
    /\ RouteDone /\ ToldForwarded
    /\ actionGroupConfigured
    /\ Performed("sendToGroup")
    /\ ~SentToGroup

\* ------------------------------------------------------------------
\* Texts that are no button labels
\* ------------------------------------------------------------------

ServerDone == serverPc = "done"

ServerPerformed(step) == \E i \in 1..Len(serverCalls) : serverCalls[i] = step

\* the message has a text that is no label of the two keyboards
PlainText ==
    /\ serverText # Undefined /\ serverText # <<>>
    /\ serverText \notin mainButtons \cup web3Buttons

\* C29: a text message that is not one of the keyboard button labels is
\* not handled as a button press and proceeds to FAQ matching
\* (processUserQuestion).
C29_PlainTextReachesFaqMatching ==
    (ServerDone /\ PlainText) =>
        /\ ~ServerPerformed("handleKeyboardButton")
        /\ ~ServerPerformed("handleWeb3Submenu")
        /\ ServerPerformed("processUserQuestion")

\* C29: no message of the server reaches processUserQuestion or the Web3
\* submenu: every text is handled as a button of the main keyboard
C29_EveryTextIsAButtonPress ==
    (ServerDone /\ serverText # Undefined /\ serverText # <<>>) =>
        /\ ServerPerformed("handleKeyboardButton")
        /\ ~ServerPerformed("handleWeb3Submenu")
        /\ ~ServerPerformed("processUserQuestion")

\* C29: the question of a stored entry was answered with 'Option selected'
C29_QuestionAnsweredAsButton ==
    /\ ServerDone
    /\ serverText = E_defi.question
    /\ E_defi \in EntrySet(faqs)
    /\ ServerPerformed("handleKeyboardButton")
    /\ serverSent = <<Msg("user", optionSelected, <<>>)>>

====
